---- MODULE Spec2Model ----
(***************************************************************************)
(* InboxAI backend: the conversation orchestrator (ChatService), the email *)
(* cache and reference resolver (EmailService) and the in-memory session   *)
(* store (session_service), as state machines.                             *)
(*                                                                         *)
(* Spec      : chat requests handled concurrently on one session object.   *)
(*             A request is cut into atomic segments at the awaits on a    *)
(*             collaborator (Gmail, AI), the only places where the asyncio *)
(*             event loop can switch to another request.                   *)
(* SpecStore : the session store with its clock and session tokens.        *)
(* SpecClassify : parse_message, the intent classifier, over messages of a *)
(*             small vocabulary and the replies of the generative model.   *)
(***************************************************************************)
EXTENDS Integers, Sequences, FiniteSets, TLC

VARIABLES
    emails_cache,    \* session["emails_cache"]: sequence of cached entities
    pending_action,  \* session["pending_action"]: None | "send" | "delete"
    pending_data,    \* session["pending_data"]: NoneData | payload record
    pending_src,     \* history: serial of the request that stored the payload
    trashed,         \* Gmail: ids of the messages moved to trash
    req,             \* per request slot: position and locals of the request
    resp,            \* the response the last step returned (NoResp: none)
    sent,            \* history: invocations of gmail.send_email
    deleted,         \* history: invocations of gmail.delete_email
    stored,          \* history: payloads stored by REPLY / DELETE requests
    cancelled,       \* history: serials of the payloads discarded by CANCEL
    sessions,        \* _sessions: session_id -> record, for the ids present
    now,             \* the clock (datetime.utcnow()), in ticks
    tokens,          \* session tokens (JWTs) issued by create_session
    last,            \* result of the last store operation
    jwt_lib,         \* the build of the jwt library the process runs with
    access,          \* per access slot: a get_current_session / refresh_session
                     \* call suspended at refresh_access_token
    refreshes,       \* history: invocations of refresh_access_token
    parse,           \* a parse_message call: its arguments, position and result
    resolve,         \* a resolve_email_reference call: its arguments and result
    extract,         \* an extract_reply_content call: its argument and result
    request,         \* a _make_request call: its position, attempts and result
    inbox,           \* Gmail: the ids of the messages of the inbox, newest first
    budget           \* REPLY / DELETE requests that may store a payload in all

vars == <<emails_cache, pending_action, pending_data, pending_src, trashed, req,
          resp, sent, deleted, stored, cancelled, sessions, now, tokens, last,
          jwt_lib, access, refreshes, parse, resolve, extract, request,
          inbox, budget>>

chatVars == <<emails_cache, pending_action, pending_data, pending_src, trashed,
              req, resp, sent, deleted, stored, cancelled>>

storeVars == <<sessions, now, tokens, last, jwt_lib, access, refreshes>>

classifyVars == <<parse>>

resolveVars == <<resolve, extract, request>>

\* What a behaviour starts from and no action changes.
envVars == <<inbox, budget>>

-----------------------------------------------------------------------------
(* Bounds *)

MaxMail == 2        \* messages in the Gmail inbox
MaxStored == 1      \* REPLY / DELETE requests that get to store a payload
MaxInbox == 21      \* messages in the inbox of the user with the most mail
MaxStoredAgain == 2 \* the same, where one payload is stored over another
MaxRetries == 3     \* the retries a request is made with, at most (the default)

(* Program constants *)

DefaultCount == 5            \* _handle_read_emails: params.get("count", 5)
CategorizeMinCache == 10     \* _handle_categorize: len(cache) < 10
CategorizeFetchCount == 20   \* _handle_categorize: fetch_emails(count=20)
DigestFetchCount == 5        \* _handle_digest: fetch_emails(count=5)
ConfidenceThresholdLow == 40 \* CONFIDENCE_THRESHOLD_LOW = 0.4, in percent

-----------------------------------------------------------------------------
(* Values *)

None == "None"                  \* Python None, for the string-valued fields
NoneData == [none |-> TRUE]     \* Python None, for pending_data
NoEmail == [none |-> TRUE]      \* Python None, for an email
NoRef == 0                      \* params has no "email_ref"
NoContent == "None"             \* params has no "reply_content"
NoCount == 0                    \* params has no "count"
NoQuery == "None"               \* params has no "query"
NoData == <<>>                  \* ChatResponse.data is None

Intents == {"READ_EMAILS", "REPLY", "DELETE", "CATEGORIZE", "DIGEST",
            "CONFIRM", "CANCEL", "HELP", "GREETING", "UNKNOWN"}

Confidences == {0, 39, 40, 90}  \* ParsedIntent.confidence, in percent

MsgIds == 1..MaxMail

\* The inbox of the session's user as Gmail lists it, most recent first: the
\* newest message has the highest id.
Inbox == [i \in 1..MaxMail |-> MaxMail + 1 - i]

\* The sender of a message: two senders, several messages each.
SenderOf(id) == IF id % 2 = 1 THEN "alice@example.com" ELSE "bob@example.com"

\* What gmail.fetch_emails returns for a message.
GmailEmail(id) == [id |-> id, sender_email |-> SenderOf(id)]

\* The search queries a READ_EMAILS message may carry.
Queries == {NoQuery, "from:alice"}

\* Gmail's q parameter: the message is among the results of the query.
MatchesQuery(id, query) ==
    query = NoQuery \/ (query = "from:alice" /\ SenderOf(id) = "alice@example.com")

\* References a message can carry: none, or a bare number ("1", "#2").
Refs == 0..(MaxMail + 1)

ReplyContents == {NoContent, "explicit"}
GeneratedReply == "generated"

\* The "count" a READ_EMAILS message may carry (none: every message of the
\* small inbox is within the default count).
Counts == {NoCount, 1}

\* Two requests of the session can be in flight at once (two browser tabs).
Slots == {1, 2}

NoResp == [intent |-> None, type |-> None, msg |-> None, pending_action |-> None,
           data |-> NoData, cause |-> None]

\* ChatResponse(message, type, pending_action=None), tagged with the intent of
\* the request it answers and (cause) with what the collaborator call before
\* it came to, if that was not its result.
ChatResponse(intent, msg, type, pa) ==
    [intent |-> intent, type |-> type, msg |-> msg, pending_action |-> pa,
     data |-> NoData, cause |-> None]

\* A free request slot. The locals of a suspended request: its intent, the
\* email it resolved or took from the pending payload, the reply body taken
\* from the payload, the result of the fetch in flight, and (history) src,
\* the serial of the payload it is executing.
IdleReq == [pc |-> "idle", intent |-> None, email |-> NoEmail,
            reply_body |-> NoContent, fetched |-> <<>>, src |-> 0,
            has_pending |-> FALSE, count |-> NoCount, query |-> NoQuery,
            cache |-> <<>>]

-----------------------------------------------------------------------------
(* Sequence helpers *)

RECURSIVE SelectIn(_, _)
\* The subsequence of s of the elements not in the set drop.
SelectIn(s, drop) ==
    IF s = <<>> THEN <<>>
    ELSE IF Head(s) \in drop THEN SelectIn(Tail(s), drop)
         ELSE <<Head(s)>> \o SelectIn(Tail(s), drop)

Prefix(s, n) == IF n >= Len(s) THEN s ELSE SubSeq(s, 1, n)

RECURSIVE SelectQuery(_, _)
\* The subsequence of the ids in s that the query finds.
SelectQuery(s, query) ==
    IF s = <<>> THEN <<>>
    ELSE IF MatchesQuery(Head(s), query)
         THEN <<Head(s)>> \o SelectQuery(Tail(s), query)
         ELSE SelectQuery(Tail(s), query)

\* Faulty variant: the emails left in the cache are numbered anew.
FilterIdRenumbered(cache, email_id) ==
    LET kept == {i \in DOMAIN cache : cache[i].id # email_id}
        nth(i) == CHOOSE k \in kept : Cardinality({j \in kept : j <= k}) = i
    IN  [i \in 1..Cardinality(kept) |-> [cache[nth(i)] EXCEPT !.index = i]]

RECURSIVE FilterId(_, _)
\* [e for e in cache if e["id"] != email_id]
FilterId(cache, email_id) ==
    IF cache = <<>> THEN <<>>
    ELSE IF Head(cache).id = email_id THEN FilterId(Tail(cache), email_id)
         ELSE <<Head(cache)>> \o FilterId(Tail(cache), email_id)

-----------------------------------------------------------------------------
(* EmailService *)

\* GmailClient.fetch_emails: the first count messages (maxResults) of the
\* inbox that are not in the trash and that the query (q) finds, as Email
\* objects.
GmailFetch(count, query, trash) ==
    LET ids == Prefix(SelectQuery(SelectIn(inbox, trash), query), count)
    IN  [i \in 1..Len(ids) |-> GmailEmail(ids[i])]

\* EmailService._cache_emails: the cache built from a fetch result.
CacheOf(emails) ==
    [i \in 1..Len(emails) |->
        [index |-> i, id |-> emails[i].id, sender_email |-> emails[i].sender_email]]

\* Faulty variant: the upper bounds check is lost, an index past the end finds the
\* last email.
ResolveIndexClamped(idx, cache) ==
    IF 1 <= idx THEN cache[IF idx <= Len(cache) THEN idx ELSE Len(cache)] ELSE NoEmail

\* EmailService._resolve_index for a bare number: cache[idx - 1] if in range.
ResolveIndex(idx, cache) ==
    IF 1 <= idx /\ idx <= Len(cache) THEN cache[idx] ELSE NoEmail

\* EmailService.resolve_email_reference for a numeric reference: the index
\* strategy decides; the sender and subject strategies find no word longer
\* than two characters in a bare number.
ResolveEmailReference(ref, cache) ==
    IF cache = <<>> THEN NoEmail ELSE ResolveIndex(ref, cache)

\* Faulty variant: the reply is sent without the id of the email it answers.
SendReplyCallUnthreaded(email_id, body, original_email) ==
    [to |-> original_email.sender_email, body |-> body, reply_to_id |-> 0]

\* EmailService.send_reply with original_email given: the send_email call.
SendReplyCall(email_id, body, original_email) ==
    [to |-> original_email.sender_email, body |-> body, reply_to_id |-> email_id]

-----------------------------------------------------------------------------
(* ChatService: the pieces the handlers are made of *)

\* pending_data as _handle_reply builds it.
SendPayload(email, reply_content) ==
    [email_id |-> email.id, email |-> email, reply_body |-> reply_content]

\* pending_data as _handle_delete builds it.
DeletePayload(email) == [email_id |-> email.id, email |-> email]

\* Faulty variant: a payload that is pending stays, under the new kind.
SetPendingKeepData(kind, data) ==
    /\ pending_action' = kind
    /\ pending_data' = IF pending_data = NoneData THEN data ELSE pending_data
    /\ pending_src' = Len(stored) + 1

\* session["pending_action"] = kind; session["pending_data"] = data
\* (two assignments with no await between them). History: the payload gets
\* the next serial.
SetPending(kind, data) ==
    /\ pending_action' = kind
    /\ pending_data' = data
    /\ pending_src' = Len(stored) + 1

\* History: the request with this intent stored (kind, data) and answered
\* with a response of this type.
Record(intent, kind, data, type) ==
    stored' = Append(stored, [intent |-> intent, kind |-> kind, data |-> data,
                              type |-> type])

\* Faulty variant: only pending_action is cleared.
ClearActionOnly ==
    /\ pending_action' = None
    /\ UNCHANGED pending_data
    /\ pending_src' = 0

\* session["pending_action"] = None; session["pending_data"] = None
ClearPendingFields ==
    /\ pending_action' = None
    /\ pending_data' = NoneData
    /\ pending_src' = 0

\* The request in slot r returns a response: its locals die with the handler.
Finish(r, intent, msg, type, pa) ==
    /\ req' = [req EXCEPT ![r] = IdleReq]
    /\ resp' = ChatResponse(intent, msg, type, pa)

\* The params of a READ_EMAILS message: a count, a query, or neither.
ReadParams ==
    {params \in [count : Counts, query : Queries] :
        params.count = NoCount \/ params.query = NoQuery}

\* The request in slot r returns a response that carries data, after a
\* collaborator call that came to cause.
FinishWith(r, intent, msg, type, data, cause) ==
    /\ req' = [req EXCEPT ![r] = IdleReq]
    /\ resp' = [ChatResponse(intent, msg, type, None) EXCEPT !.data = data,
                                                            !.cause = cause]

\* process_message, the except clauses around _handle_intent: the exception
\* a handler raised becomes a response of type error.
Caught(r, intent, exc) ==
    FinishWith(r, intent, exc, "error", NoData, exc)

\* What a call of the Gmail collaborator comes to besides its result.
GmailFailures == {"gmail_error", "unexpected"}

\* The request in slot r suspends at an await, at position pc.
Await(r, pc, locals) ==
    /\ req' = [req EXCEPT ![r] = [locals EXCEPT !.pc = pc]]
    /\ resp' = NoResp

\* process_message up to await parse_message, when the parse goes to the
\* generative fallback and the request is suspended there: has_pending was
\* read from the session before.
ReceiveMessage(r) ==
    /\ req[r].pc = "idle"
    /\ Await(r, "await_parse", [IdleReq EXCEPT !.has_pending = pending_action # None])
    /\ UNCHANGED <<emails_cache, pending_action, pending_data, pending_src,
                   trashed, sent, deleted, stored, cancelled, storeVars, classifyVars, resolveVars, envVars>>

\* process_message, the guard, after a fallback reply whose confidence is no
\* number (JSON null, a string): parse_message hands it on as it came, and
\* parsed.confidence < CONFIDENCE_THRESHOLD_LOW raises TypeError, before the
\* try. The exception leaves process_message: no response is built.
ConfidenceTypeError(r) ==
    /\ req[r].pc = "await_parse"
    /\ FinishWith(r, None, "TypeError", "raised", NoData, "TypeError")
    /\ UNCHANGED <<emails_cache, pending_action, pending_data, pending_src,
                   trashed, sent, deleted, stored, cancelled, storeVars, classifyVars, resolveVars, envVars>>

\* The handler of a request with this intent runs in slot r: of a message
\* the patterns classify (no suspension since the request came in), or of
\* one the fallback classified.
Arrives(r, intent) == req[r].pc \in {"idle", "await_parse"}

Started(r, intent) == [IdleReq EXCEPT !.intent = intent]

\* REPLY requests suspended in reply generation, which may yet store a payload.
InFlightStores == Cardinality({s \in Slots : req[s].pc = "await_generate_reply"})

CanStore == Len(stored) + InFlightStores < budget

\* The reference finds an email in the session's cache.
Resolves(email_ref) ==
    email_ref # NoRef /\ ResolveEmailReference(email_ref, emails_cache) # NoEmail

-----------------------------------------------------------------------------
(* Handlers that fetch *)

\* email_service.fetch_emails(count) is called: Gmail lists the inbox.
CallFetch(r, intent, count) ==
    Await(r, "await_fetch",
          [Started(r, intent) EXCEPT !.count = count,
                                     !.fetched = GmailFetch(count, NoQuery, trashed)])

\* Faulty variant: the fetch is made with the default count and no query,
\* whatever the params say.
ReadEmailsWithDefaults(r, count, query) ==
    Await(r, "await_fetch",
          [Started(r, "READ_EMAILS") EXCEPT
              !.count = count, !.query = query,
              !.fetched = GmailFetch(DefaultCount, NoQuery, trashed)])

\* _handle_read_emails up to the fetch, for the params of the request.
ReadEmailsWith(r, count, query) ==
    Await(r, "await_fetch",
          [Started(r, "READ_EMAILS") EXCEPT
              !.count = count, !.query = query,
              !.fetched = GmailFetch(IF count = NoCount THEN DefaultCount ELSE count,
                                     query, trashed)])

HandleReadEmails(r) ==
    /\ Arrives(r, "READ_EMAILS")
    /\ \E params \in ReadParams : ReadEmailsWith(r, params.count, params.query)
    /\ UNCHANGED <<emails_cache, pending_action, pending_data, pending_src,
                   trashed, sent, deleted, stored, cancelled, storeVars, classifyVars, resolveVars, envVars>>

\* Faulty variant: a cache of just ten emails is fetched anew.
HandleCategorizeAtMost(r) ==
    /\ Arrives(r, "CATEGORIZE")
    /\ IF Len(emails_cache) <= CategorizeMinCache
       THEN CallFetch(r, "CATEGORIZE", CategorizeFetchCount)
       ELSE Await(r, "await_categorize",
                  [Started(r, "CATEGORIZE") EXCEPT !.cache = emails_cache])
    /\ UNCHANGED <<emails_cache, pending_action, pending_data, pending_src,
                   trashed, sent, deleted, stored, cancelled, storeVars, classifyVars, resolveVars, envVars>>

\* _handle_categorize up to its first await: "if not cache or len(cache) < 10".
HandleCategorize(r) ==
    /\ Arrives(r, "CATEGORIZE")
    /\ IF Len(emails_cache) < CategorizeMinCache
       THEN CallFetch(r, "CATEGORIZE", CategorizeFetchCount)
       ELSE Await(r, "await_categorize",
                  [Started(r, "CATEGORIZE") EXCEPT !.cache = emails_cache])
    /\ UNCHANGED <<emails_cache, pending_action, pending_data, pending_src,
                   trashed, sent, deleted, stored, cancelled, storeVars, classifyVars, resolveVars, envVars>>

HandleDigest(r) ==
    /\ Arrives(r, "DIGEST")
    /\ IF emails_cache = <<>>
       THEN CallFetch(r, "DIGEST", DigestFetchCount)
       ELSE Await(r, "await_digest",
                  [Started(r, "DIGEST") EXCEPT !.cache = emails_cache])
    /\ UNCHANGED <<emails_cache, pending_action, pending_data, pending_src,
                   trashed, sent, deleted, stored, cancelled, storeVars, classifyVars, resolveVars, envVars>>

\* Faulty variant: replacing the cache also drops the pending action.
ReplaceCacheDropPending(emails) ==
    /\ emails_cache' = CacheOf(emails)
    /\ pending_action' = None
    /\ pending_data' = NoneData
    /\ pending_src' = 0

\* Faulty variant: the fetch result is put after what the cache held.
ReplaceCacheMerged(emails) ==
    /\ emails_cache' = emails_cache \o CacheOf(emails)
    /\ UNCHANGED <<pending_action, pending_data, pending_src>>

\* The fetch hands its result to _cache_emails, which replaces the cache and
\* nothing else of the session.
ReplaceCache(emails) ==
    /\ emails_cache' = CacheOf(emails)
    /\ UNCHANGED <<pending_action, pending_data, pending_src>>

\* The fetch returns: the cache is replaced, and the handler goes on.
FetchReturn(r) ==
    /\ req[r].pc = "await_fetch"
    /\ \E outcome \in {"ok"} \cup GmailFailures :
          IF outcome # "ok"
          THEN \* GmailError or another exception, caught by process_message
               /\ Caught(r, req[r].intent, outcome)
               /\ UNCHANGED <<emails_cache, pending_action, pending_data, pending_src>>
          ELSE /\ ReplaceCache(req[r].fetched)
               /\ IF req[r].fetched = <<>>
                  THEN Finish(r, req[r].intent, "no_emails", "text", None)
                  ELSE Await(r, CASE req[r].intent = "READ_EMAILS" -> "await_summarize"
                                  [] req[r].intent = "CATEGORIZE" -> "await_categorize"
                                  [] OTHER -> "await_digest",
                             IF req[r].intent = "READ_EMAILS" THEN req[r]
                             ELSE \* cache = get_cached_emails(), after the fetch
                                  [req[r] EXCEPT !.fetched = <<>>,
                                                 !.cache = CacheOf(req[r].fetched)])
    /\ UNCHANGED <<trashed, sent, deleted, stored, cancelled, storeVars, classifyVars, resolveVars, envVars>>

\* What a call of the generative model comes to besides a JSON object:
\* complete raises AIError, the text is not JSON, the JSON is not an object.
AiCauses == {"AIError", "not_json", "not_object"}

\* format_emails_for_chat: EmailSummary objects, numbered in the order of the
\* fetch, with the summaries summarize_emails gave.
FormatEmailsForChat(emails, summary) ==
    [i \in 1..Len(emails) |-> [index |-> i, id |-> emails[i].id, summary |-> summary]]

\* summarize_emails returns: the summaries of the model, or, when the model
\* failed, the snippets cut to length.
SummarizeReturn(r) ==
    /\ req[r].pc = "await_summarize"
    /\ \E cause \in {"ok", "AIError"} :
          FinishWith(r, req[r].intent, "emails", "emails",
                     FormatEmailsForChat(req[r].fetched,
                                         IF cause = "ok" THEN "ai" ELSE "snippet"),
                     cause)
    /\ UNCHANGED <<emails_cache, pending_action, pending_data, pending_src,
                   trashed, sent, deleted, stored, cancelled, storeVars, classifyVars, resolveVars, envVars>>

\* [e["index"] for e in emails]
IndicesOf(emails) == [i \in 1..Len(emails) |-> emails[i].index]

\* ai_service.categorize_emails: parse_json_response turns AIError and
\* unparsable text into its default {"categories": []}; only what raises in
\* categorize_emails itself (result.get on JSON that is no object) gives the
\* catch-all group. The model's own answer is taken to be one group of all
\* the emails it was shown.
CategorizeEmails(emails, cause) ==
    IF cause = "ok"
    THEN <<[name |-> "Work", email_indices |-> IndicesOf(emails)]>>
    ELSE IF cause \in {"AIError", "not_json"} THEN <<>>
    ELSE <<[name |-> "All Emails", email_indices |-> IndicesOf(emails)]>>

RECURSIVE EmailsAt(_, _)
\* [cache[i-1] for i in email_indices if i <= len(cache)]
EmailsAt(email_indices, cache) ==
    IF email_indices = <<>> THEN <<>>
    ELSE IF Head(email_indices) <= Len(cache)
         THEN <<cache[Head(email_indices)]>> \o EmailsAt(Tail(email_indices), cache)
         ELSE EmailsAt(Tail(email_indices), cache)

\* _handle_categorize: the formatted groups.
FormatCategories(categories, cache) ==
    [g \in 1..Len(categories) |->
        [category |-> categories[g].name,
         count |-> Len(categories[g].email_indices),
         emails |-> EmailsAt(categories[g].email_indices, cache)]]

\* categorize_emails returns, or formatting its result raises (a group that
\* is no object, an index that is no number).
CategorizeReturn(r) ==
    /\ req[r].pc = "await_categorize"
    /\ \E cause \in {"ok", "malformed"} \cup AiCauses :
          IF cause = "malformed"
          THEN Caught(r, req[r].intent, "unexpected")
          ELSE FinishWith(r, req[r].intent, "categories", "categories",
                          FormatCategories(CategorizeEmails(req[r].cache, cause),
                                           req[r].cache),
                          cause)
    /\ UNCHANGED <<emails_cache, pending_action, pending_data, pending_src,
                   trashed, sent, deleted, stored, cancelled, storeVars, classifyVars, resolveVars, envVars>>

\* The digest of the model: a summary in its words, key emails, suggestions.
ModelDigest(emails) ==
    [summary |-> [states |-> "model", n |-> 0],
     key_emails |-> <<[index |-> emails[1].index]>>,
     suggested_actions |-> <<"model">>]

\* Faulty variant: the digest of a failure names the first email as a key email.
GenerateDigestKeyed(emails, cause) ==
    IF cause = "ok" THEN ModelDigest(emails)
    ELSE [summary |-> [states |-> "count", n |-> Len(emails)],
          key_emails |-> <<[index |-> emails[1].index]>>,
          suggested_actions |-> <<>>]

\* ai_service.generate_digest for a cache that is not empty:
\* parse_json_response turns AIError and unparsable text into the default it
\* was given, "You have {len(emails)} emails today." with no key emails and
\* no suggested actions.
GenerateDigest(emails, cause) ==
    IF cause = "ok" THEN ModelDigest(emails)
    ELSE [summary |-> [states |-> "count", n |-> Len(emails)],
          key_emails |-> <<>>,
          suggested_actions |-> <<>>]

\* generate_digest returns (its default when the model failed), or
\* digest.get raises on a result that is no object. The data of the response
\* is the digest (here: a sequence of one, as data is a sequence throughout).
DigestReturn(r) ==
    /\ req[r].pc = "await_digest"
    /\ \E cause \in {"ok"} \cup AiCauses :
          IF cause = "not_object"
          THEN Caught(r, req[r].intent, "unexpected")
          ELSE FinishWith(r, req[r].intent, "digest", "digest",
                          <<GenerateDigest(req[r].cache, cause)>>, cause)
    /\ UNCHANGED <<emails_cache, pending_action, pending_data, pending_src,
                   trashed, sent, deleted, stored, cancelled, storeVars, classifyVars, resolveVars, envVars>>

-----------------------------------------------------------------------------
(* REPLY and DELETE: store a pending action *)

\* Faulty variant: the draft response does not surface the pending action.
StoreSendUnsurfaced(r, email, reply_content) ==
    /\ SetPending("send", SendPayload(email, reply_content))
    /\ Record("REPLY", "send", SendPayload(email, reply_content), "draft")
    /\ Finish(r, "REPLY", "draft", "draft", None)

\* _handle_reply, from "Store pending action for confirmation" on.
StoreSend(r, email, reply_content) ==
    /\ SetPending("send", SendPayload(email, reply_content))
    /\ Record("REPLY", "send", SendPayload(email, reply_content), "draft")
    /\ Finish(r, "REPLY", "draft", "draft", "send")

\* _handle_delete, from "Store pending action for confirmation" on.
StoreDelete(r, email) ==
    /\ SetPending("delete", DeletePayload(email))
    /\ Record("DELETE", "delete", DeletePayload(email), "confirmation")
    /\ Finish(r, "DELETE", "confirm_delete", "confirmation", "delete")

\* _handle_reply up to reply generation, for the params of the request.
ReplyWith(r, email_ref, reply_content) ==
    LET email == ResolveEmailReference(email_ref, emails_cache)
    IN  IF email_ref = NoRef
        THEN /\ Finish(r, "REPLY", "which_email", "text", None)
             /\ UNCHANGED <<pending_action, pending_data, pending_src, stored>>
        ELSE IF email = NoEmail
        THEN /\ Finish(r, "REPLY", "not_found", "text", None)
             /\ UNCHANGED <<pending_action, pending_data, pending_src, stored>>
        ELSE IF reply_content = NoContent
        THEN /\ Await(r, "await_generate_reply",
                      [Started(r, "REPLY") EXCEPT !.email = email])
             /\ UNCHANGED <<pending_action, pending_data, pending_src, stored>>
        ELSE StoreSend(r, email, reply_content)

HandleReply(r) ==
    /\ Arrives(r, "REPLY")
    /\ \E email_ref \in Refs, reply_content \in ReplyContents :
          /\ Resolves(email_ref) => CanStore
          /\ ReplyWith(r, email_ref, reply_content)
    /\ UNCHANGED <<emails_cache, trashed, sent, deleted, cancelled, storeVars, classifyVars, resolveVars, envVars>>

\* generate_reply returns a body, or raises AIError.
GenerateReplyReturn(r) ==
    /\ req[r].pc = "await_generate_reply"
    /\ \E ok \in BOOLEAN :
          IF ok
          THEN StoreSend(r, req[r].email, GeneratedReply)
          ELSE /\ FinishWith(r, "REPLY", "couldnt_generate", "error", NoData, "AIError")
               /\ UNCHANGED <<pending_action, pending_data, pending_src, stored>>
    /\ UNCHANGED <<emails_cache, trashed, sent, deleted, cancelled, storeVars, classifyVars, resolveVars, envVars>>

\* _handle_delete, for the params of the request.
DeleteWith(r, email_ref) ==
    LET email == ResolveEmailReference(email_ref, emails_cache)
    IN  IF email_ref = NoRef
        THEN /\ Finish(r, "DELETE", "which_email", "text", None)
             /\ UNCHANGED <<pending_action, pending_data, pending_src, stored>>
        ELSE IF email = NoEmail
        THEN /\ Finish(r, "DELETE", "not_found", "text", None)
             /\ UNCHANGED <<pending_action, pending_data, pending_src, stored>>
        ELSE StoreDelete(r, email)

HandleDelete(r) ==
    /\ Arrives(r, "DELETE")
    /\ \E email_ref \in Refs :
          /\ Resolves(email_ref) => CanStore
          /\ DeleteWith(r, email_ref)
    /\ UNCHANGED <<emails_cache, trashed, sent, deleted, cancelled, storeVars, classifyVars, resolveVars, envVars>>

-----------------------------------------------------------------------------
(* CONFIRM and CANCEL *)

\* The locals of _handle_confirm once it has read the pending payload.
Confirming(r) ==
    [Started(r, "CONFIRM") EXCEPT
        !.email = pending_data.email, !.src = pending_src,
        \* has_pending of process_message: read before the parse
        !.has_pending = IF req[r].pc = "await_parse" THEN req[r].has_pending
                        ELSE TRUE]

\* Faulty variant: the reply goes to the email at the payload's index, not its id.
ExecuteSendByIndex(r) ==
    LET email == pending_data.email
        reply_body == pending_data.reply_body
    IN  /\ sent' = Append(sent, [call |-> SendReplyCall(email.index, reply_body, email),
                                 src |-> pending_src, intent |-> "CONFIRM"])
        /\ Await(r, "await_send", [Confirming(r) EXCEPT !.reply_body = reply_body])
        /\ UNCHANGED deleted

\* Faulty variant: the reply goes to the email the cache holds at the
\* payload's index when the CONFIRM runs.
ExecuteSendFromCache(r) ==
    LET index == pending_data.email.index
        email == IF index <= Len(emails_cache) THEN emails_cache[index]
                 ELSE pending_data.email
        reply_body == pending_data.reply_body
    IN  /\ sent' = Append(sent, [call |-> SendReplyCall(email.id, reply_body, email),
                                 src |-> pending_src, intent |-> "CONFIRM"])
        /\ Await(r, "await_send", [Confirming(r) EXCEPT !.reply_body = reply_body])
        /\ UNCHANGED deleted

\* _handle_confirm, "if pending_action == 'send'": send_reply is called.
ExecuteSend(r) ==
    LET email == pending_data.email
        reply_body == pending_data.reply_body
    IN  /\ sent' = Append(sent, [call |-> SendReplyCall(email.id, reply_body, email),
                                 src |-> pending_src, intent |-> "CONFIRM"])
        /\ Await(r, "await_send", [Confirming(r) EXCEPT !.reply_body = reply_body])
        /\ UNCHANGED deleted

\* _handle_confirm, "elif pending_action == 'delete'": delete_email is called.
ExecuteDelete(r) ==
    LET email == pending_data.email
    IN  /\ deleted' = Append(deleted, [email_id |-> email.id, src |-> pending_src,
                                       intent |-> "CONFIRM"])
        /\ Await(r, "await_trash", Confirming(r))
        /\ UNCHANGED sent

\* Faulty variant: the pending state is not cleared before the collaborator is called.
ExecutePendingKeep(r) ==
    /\ UNCHANGED <<pending_action, pending_data, pending_src>>
    /\ IF pending_action = "send" THEN ExecuteSend(r)
       ELSE IF pending_action = "delete" THEN ExecuteDelete(r)
       ELSE /\ Finish(r, "CONFIRM", "unknown_pending", "error", None)
            /\ UNCHANGED <<sent, deleted>>

\* _handle_confirm with something pending: the pending state is read into
\* locals and cleared, then the action collaborator is called.
ExecutePending(r) ==
    /\ ClearPendingFields
    /\ IF pending_action = "send" THEN ExecuteSend(r)
       ELSE IF pending_action = "delete" THEN ExecuteDelete(r)
       ELSE /\ Finish(r, "CONFIRM", "unknown_pending", "error", None)
            /\ UNCHANGED <<sent, deleted>>

\* Faulty variant: CONFIRM goes by the has_pending that process_message read
\* before the parse.
HandleConfirmStale(r) ==
    /\ Arrives(r, "CONFIRM")
    /\ IF \/ req[r].pc = "await_parse" /\ ~req[r].has_pending
          \/ pending_action = None \/ pending_data = NoneData
       THEN /\ Finish(r, "CONFIRM", "nothing_to_confirm", "text", None)
            /\ UNCHANGED <<pending_action, pending_data, pending_src, sent, deleted>>
       ELSE ExecutePending(r)
    /\ UNCHANGED <<emails_cache, trashed, stored, cancelled, storeVars, classifyVars, resolveVars, envVars>>

\* _handle_confirm: the pending fields are read from the session when the
\* handler runs.
HandleConfirm(r) ==
    /\ Arrives(r, "CONFIRM")
    /\ IF pending_action = None \/ pending_data = NoneData
       THEN /\ Finish(r, "CONFIRM", "nothing_to_confirm", "text", None)
            /\ UNCHANGED <<pending_action, pending_data, pending_src, sent, deleted>>
       ELSE ExecutePending(r)
    /\ UNCHANGED <<emails_cache, trashed, stored, cancelled, storeVars, classifyVars, resolveVars, envVars>>

\* gmail.send_email returns, or raises GmailError.
SendReturn(r) ==
    /\ req[r].pc = "await_send"
    /\ \E outcome \in {"ok"} \cup GmailFailures :
          IF outcome = "ok" THEN Finish(r, "CONFIRM", "sent", "text", None)
          ELSE Caught(r, "CONFIRM", outcome)
    /\ UNCHANGED <<emails_cache, pending_action, pending_data, pending_src,
                   trashed, sent, deleted, stored, cancelled, storeVars, classifyVars, resolveVars, envVars>>

\* Faulty variant: the email leaves the cache whether the delete succeeded
\* or not.
TrashReturnAnyway(r) ==
    /\ req[r].pc = "await_trash"
    /\ \E outcome \in {"ok", "not_found"} \cup GmailFailures :
          /\ emails_cache' = FilterId(emails_cache, req[r].email.id)
          /\ IF outcome = "ok"
             THEN /\ trashed' = trashed \cup {req[r].email.id}
                  /\ Finish(r, "CONFIRM", "deleted", "text", None)
             ELSE /\ Caught(r, "CONFIRM", outcome)
                  /\ UNCHANGED trashed
    /\ UNCHANGED <<pending_action, pending_data, pending_src, sent, deleted,
                   stored, cancelled, storeVars, classifyVars, resolveVars, envVars>>

\* gmail.delete_email returns (and the email leaves the cache), or raises
\* EmailNotFoundError or GmailError.
TrashReturn(r) ==
    /\ req[r].pc = "await_trash"
    /\ \E outcome \in {"ok", "not_found"} \cup GmailFailures :
          IF outcome = "ok"
          THEN /\ trashed' = trashed \cup {req[r].email.id}
               /\ emails_cache' = FilterId(emails_cache, req[r].email.id)
               /\ Finish(r, "CONFIRM", "deleted", "text", None)
          ELSE /\ Caught(r, "CONFIRM", outcome)
               /\ UNCHANGED <<trashed, emails_cache>>
    /\ UNCHANGED <<pending_action, pending_data, pending_src, sent, deleted,
                   stored, cancelled, storeVars, classifyVars, resolveVars, envVars>>

\* Faulty variant: CANCEL answers but leaves the pending state in place.
HandleCancelKeep(r) ==
    /\ Arrives(r, "CANCEL")
    /\ UNCHANGED <<pending_action, pending_data, pending_src>>
    /\ IF pending_action # None
       THEN /\ Finish(r, "CANCEL", IF pending_action = "send" THEN "reply_cancelled"
                                   ELSE "delete_cancelled", "text", None)
            /\ cancelled' = cancelled \cup {pending_src}
       ELSE /\ Finish(r, "CANCEL", "nothing_to_cancel", "text", None)
            /\ UNCHANGED cancelled
    /\ UNCHANGED <<emails_cache, trashed, sent, deleted, stored, storeVars, classifyVars, resolveVars, envVars>>

\* Faulty variant: CANCEL does not look whether anything was pending.
HandleCancelBlind(r) ==
    /\ Arrives(r, "CANCEL")
    /\ ClearPendingFields
    /\ Finish(r, "CANCEL", IF pending_action = "delete" THEN "delete_cancelled"
                           ELSE "reply_cancelled", "text", None)
    /\ cancelled' = IF pending_action # None THEN cancelled \cup {pending_src}
                    ELSE cancelled
    /\ UNCHANGED <<emails_cache, trashed, sent, deleted, stored, storeVars, classifyVars, resolveVars, envVars>>

\* _handle_cancel
HandleCancel(r) ==
    /\ Arrives(r, "CANCEL")
    /\ ClearPendingFields
    /\ IF pending_action # None
       THEN /\ Finish(r, "CANCEL", IF pending_action = "send" THEN "reply_cancelled"
                                   ELSE "delete_cancelled", "text", None)
            /\ cancelled' = cancelled \cup {pending_src}
       ELSE /\ Finish(r, "CANCEL", "nothing_to_cancel", "text", None)
            /\ UNCHANGED cancelled
    /\ UNCHANGED <<emails_cache, trashed, sent, deleted, stored, storeVars, classifyVars, resolveVars, envVars>>

-----------------------------------------------------------------------------
(* Static answers, the low-confidence guard, and the clear-pending endpoint *)

\* Faulty variant: the guard does not look at the intent.
LowConfidenceAnyIntent(intent, confidence) == confidence < ConfidenceThresholdLow

\* process_message: the guard, for a parse result (intent, confidence).
LowConfidence(intent, confidence) ==
    confidence < ConfidenceThresholdLow /\ intent = "UNKNOWN"

\* An UNKNOWN request: answered by the guard, or else by _handle_unknown,
\* with the same text.
HandleUnknown(r) ==
    /\ Arrives(r, "UNKNOWN")
    /\ \E confidence \in Confidences :
          IF LowConfidence("UNKNOWN", confidence)
          THEN Finish(r, "UNKNOWN", "low_confidence", "text", None)
          ELSE Finish(r, "UNKNOWN", "low_confidence", "text", None)
    /\ UNCHANGED <<emails_cache, pending_action, pending_data, pending_src,
                   trashed, sent, deleted, stored, cancelled, storeVars, classifyVars, resolveVars, envVars>>

HandleHelp(r) ==
    /\ Arrives(r, "HELP")
    /\ Finish(r, "HELP", "help", "text", None)
    /\ UNCHANGED <<emails_cache, pending_action, pending_data, pending_src,
                   trashed, sent, deleted, stored, cancelled, storeVars, classifyVars, resolveVars, envVars>>

HandleGreeting(r) ==
    /\ Arrives(r, "GREETING")
    /\ Finish(r, "GREETING", "greeting", "text", None)
    /\ UNCHANGED <<emails_cache, pending_action, pending_data, pending_src,
                   trashed, sent, deleted, stored, cancelled, storeVars, classifyVars, resolveVars, envVars>>

\* DELETE /chat/pending
ClearPendingEndpoint ==
    /\ ClearPendingFields
    /\ resp' = ChatResponse("CLEAR_PENDING", "cleared", "success", None)
    /\ UNCHANGED <<emails_cache, trashed, req, sent, deleted, stored, cancelled,
                   storeVars, classifyVars, resolveVars, envVars>>

-----------------------------------------------------------------------------
(* The session store: session_service *)

\* The clock counts ticks, TicksPerSecond of them to the second, so that the
\* whole seconds of a JWT's exp differ from the datetimes of the record.
MaxTime == 8
TicksPerSecond == 3
\* settings.session_expire_hours, scaled down to seconds.
SessionExpireSeconds == 1
MaxSessions == 1
\* expires_in of the access token, in seconds.
ExpiresIn == {1, 2}

\* timedelta(minutes=5) of is_token_expired, scaled down to ticks.
RefreshBuffer == 2
MaxRefreshes == 2

\* No access token; the access token create_session is given; those that
\* refresh_access_token returns are numbered after it.
NoAccessToken == 0
InitialAccessToken == 1

\* No store operation was called yet.
NoCall == [op |-> None, session_id |-> 0, result |-> None,
           access_token |-> NoAccessToken]

\* A token that does not verify (bad signature, garbage).
ForgedToken == [session_id |-> 0, exp |-> 0, signed |-> FALSE]

\* The tokens a caller can present: those issued, and one that does not verify.
Presented == tokens \cup {ForgedToken}

\* Concurrent accesses (requests passing get_current_session, calls of the
\* refresh endpoint).
AccessSlots == {1, 2}

\* No access is suspended in this slot.
IdleAccess == [pc |-> "idle", path |-> None, token |-> ForgedToken,
               new_token |-> NoAccessToken]

\* timedelta(hours = settings.session_expire_hours), in ticks.
SessionLifetime == SessionExpireSeconds * TicksPerSecond

\* jwt.encode writes a datetime claim as whole seconds since the epoch.
NumericDate(t) == t \div TicksPerSecond

\* The builds of the jwt library compare exp with the clock in two ways: with
\* the clock cut to whole seconds and exp < now, or with the clock as it is
\* and exp <= now. A process runs with one of them.
JwtLibs == {"whole_seconds", "fractional"}

\* Faulty variant: exp is never verified.
JwtDecodeNoExp(token, lib, verify_exp) ==
    IF ~token.signed THEN "invalid" ELSE "ok"

\* jwt.decode: "invalid" for InvalidTokenError, "expired" for
\* ExpiredSignatureError (when exp is verified), or "ok" with the payload.
JwtDecode(token, lib, verify_exp) ==
    IF ~token.signed THEN "invalid"
    ELSE IF verify_exp /\ (IF lib = "whole_seconds"
                           THEN token.exp < NumericDate(now)
                           ELSE token.exp * TicksPerSecond <= now)
    THEN "expired"
    ELSE "ok"

\* del _sessions[session_id]
Without(session_id) ==
    [id \in DOMAIN sessions \ {session_id} |-> sessions[id]]

\* The result of a store operation on the session of a token, and the access
\* token of the session handed to the caller, if one is.
Hands(op, token, result, access_token) ==
    last' = [op |-> op, session_id |-> token.session_id, result |-> result,
             access_token |-> access_token]

Returns(op, token, result) == Hands(op, token, result, NoAccessToken)

\* Time passes.
Tick ==
    /\ now < MaxTime
    /\ now' = now + 1
    /\ UNCHANGED <<sessions, tokens, last, access, refreshes, jwt_lib, chatVars, classifyVars, resolveVars, envVars>>

\* create_session: a record under a fresh session id, and its JWT.
CreateSession ==
    /\ Cardinality(tokens) < MaxSessions
    /\ \E expires_in \in ExpiresIn :
         LET session_id == Cardinality(tokens) + 1
             session_expiry == now + SessionLifetime
             token == [session_id |-> session_id, exp |-> NumericDate(session_expiry),
                       signed |-> TRUE]
         IN  /\ sessions' = [id \in DOMAIN sessions \cup {session_id} |->
                               IF id = session_id
                               THEN [access_token |-> InitialAccessToken,
                                     token_expiry |-> now + expires_in * TicksPerSecond,
                                     session_expiry |-> session_expiry,
                                     created_at |-> now]
                               ELSE sessions[id]]
             /\ tokens' = tokens \cup {token}
             /\ Returns("create", token, "token")
    /\ UNCHANGED <<now, access, refreshes, jwt_lib, chatVars, classifyVars, resolveVars, envVars>>

\* Faulty variant: delete_session verifies exp like the other operations.
DeletedStoreVerifyExp(token) ==
    IF JwtDecode(token, "fractional", TRUE) = "ok" /\ token.session_id \in DOMAIN sessions
    THEN Without(token.session_id)
    ELSE sessions

\* delete_session, the store it leaves: exp is not verified.
DeletedStore(token) ==
    IF JwtDecode(token, "fractional", FALSE) = "ok" /\ token.session_id \in DOMAIN sessions
    THEN Without(token.session_id)
    ELSE sessions

\* delete_session, as logout calls it.
DeleteSession(token) ==
    /\ sessions' = DeletedStore(token)
    /\ Returns("delete", token, IF DeletedStore(token) # sessions THEN "true" ELSE "false")
    /\ UNCHANGED <<now, tokens, access, refreshes, jwt_lib, chatVars, classifyVars, resolveVars, envVars>>

\* get_session, the branch it takes: "rejected" (the token does not decode),
\* "missing" (no record), "lapsed" (the record's session_expiry has passed),
\* or "session".
GetOutcome(token, lib) ==
    IF JwtDecode(token, lib, TRUE) # "ok" THEN "rejected"
    ELSE IF token.session_id \notin DOMAIN sessions THEN "missing"
    ELSE IF now > sessions[token.session_id].session_expiry THEN "lapsed"
    ELSE "session"

\* get_session, the store it leaves: a lapsed record is deleted.
StoreAfterGet(token, lib) ==
    IF GetOutcome(token, lib) = "lapsed" THEN Without(token.session_id) ELSE sessions

\* get_session
GetSession(token) ==
    /\ sessions' = StoreAfterGet(token, jwt_lib)
    /\ Returns("get", token, IF GetOutcome(token, jwt_lib) = "session" THEN "session"
                             ELSE None)
    /\ UNCHANGED <<now, tokens, access, refreshes, jwt_lib, chatVars, classifyVars, resolveVars, envVars>>

\* Faulty variant: a refresh renews the session as well (sliding expiry).
UpdateTokensRenewing(token, lib, access_token, expires_in) ==
    IF JwtDecode(token, lib, TRUE) = "ok" /\ token.session_id \in DOMAIN sessions
    THEN [sessions EXCEPT ![token.session_id].access_token = access_token,
                          ![token.session_id].token_expiry =
                              now + expires_in * TicksPerSecond,
                          ![token.session_id].session_expiry = now + SessionLifetime]
    ELSE sessions

\* update_tokens (through update_session, which verifies exp), the store it
\* leaves.
UpdateTokens(token, lib, access_token, expires_in) ==
    IF JwtDecode(token, lib, TRUE) = "ok" /\ token.session_id \in DOMAIN sessions
    THEN [sessions EXCEPT ![token.session_id].access_token = access_token,
                          ![token.session_id].token_expiry =
                              now + expires_in * TicksPerSecond]
    ELSE sessions

\* is_token_expired
IsTokenExpired(session) == now + RefreshBuffer > session.token_expiry

\* refresh_access_token is called and the caller waits for it.
CallRefresh(a, path, token) ==
    /\ Len(refreshes) < MaxRefreshes
    /\ refreshes' = Append(refreshes, [session_id |-> token.session_id, path |-> path,
                                       outcome |-> "pending"])
    /\ access' = [access EXCEPT ![a] =
                    [pc |-> "await_refresh", path |-> path, token |-> token,
                     new_token |-> InitialAccessToken + Len(refreshes) + 1]]
    /\ Returns(path, token, "refreshing")

\* refresh_access_token returns new tokens, or raises PermissionRevokedError
\* ("revoked") or AuthError ("error").
RefreshOutcomes == {"ok", "revoked", "error"}

\* The call the access in slot a waits for has this outcome.
RefreshReturns(a, outcome) ==
    /\ refreshes' = [refreshes EXCEPT
                       ![access[a].new_token - InitialAccessToken].outcome = outcome]
    /\ access' = [access EXCEPT ![a] = IdleAccess]

\* Faulty variant: the record the request holds is written back to the store.
SetAccessTokenWriteBack(store, session_id, new_token) ==
    [id \in DOMAIN store \cup {session_id} |->
        IF id \in DOMAIN store
        THEN IF id = session_id THEN [store[id] EXCEPT !.access_token = new_token]
             ELSE store[id]
        ELSE [access_token |-> new_token, token_expiry |-> now,
              session_expiry |-> now, created_at |-> now]]

\* session["access_token"] = new_token, on the record get_session returned:
\* it is the store's record for as long as that is in the store.
SetAccessToken(store, session_id, new_token) ==
    IF session_id \in DOMAIN store
    THEN [store EXCEPT ![session_id].access_token = new_token]
    ELSE store

\* get_current_session up to the refresh: the dependency of the protected
\* routes.
GetCurrentSession(a) ==
    /\ access[a].pc = "idle"
    /\ \E token \in Presented :
         IF GetOutcome(token, jwt_lib) # "session"
         THEN /\ sessions' = StoreAfterGet(token, jwt_lib)
              /\ Returns("current", token, "SESSION_EXPIRED")
              /\ UNCHANGED <<access, refreshes>>
         ELSE IF IsTokenExpired(sessions[token.session_id])
         THEN /\ CallRefresh(a, "current", token)
              /\ UNCHANGED sessions
         ELSE /\ Hands("current", token, "session",
                       sessions[token.session_id].access_token)
              /\ UNCHANGED <<sessions, access, refreshes>>
    /\ UNCHANGED <<now, tokens, jwt_lib, chatVars, classifyVars, resolveVars, envVars>>

\* get_current_session from the return of refresh_access_token on.
CurrentRefreshReturn(a) ==
    /\ access[a].pc = "await_refresh" /\ access[a].path = "current"
    /\ LET token == access[a].token
           new_token == access[a].new_token
       IN  \E outcome \in RefreshOutcomes, expires_in \in ExpiresIn :
             /\ RefreshReturns(a, outcome)
             /\ CASE outcome = "ok" ->
                       /\ sessions' = SetAccessToken(
                                         UpdateTokens(token, jwt_lib, new_token, expires_in),
                                         token.session_id, new_token)
                       /\ Hands("current", token, "session", new_token)
                  [] outcome = "revoked" ->
                       /\ sessions' = DeletedStore(token)
                       /\ Returns("current", token, "PERMISSION_REVOKED")
                  [] OTHER ->
                       /\ UNCHANGED sessions
                       /\ Returns("current", token, "TOKEN_REFRESH_FAILED")
    /\ UNCHANGED <<now, tokens, jwt_lib, chatVars, classifyVars, resolveVars, envVars>>

\* AuthService.refresh_session up to the refresh, as the refresh route calls
\* it.
RefreshSession(a) ==
    /\ access[a].pc = "idle"
    /\ \E token \in Presented :
         IF GetOutcome(token, jwt_lib) # "session"
         THEN /\ sessions' = StoreAfterGet(token, jwt_lib)
              /\ Returns("refresh", token, "401")
              /\ UNCHANGED <<access, refreshes>>
         ELSE IF IsTokenExpired(sessions[token.session_id])
         THEN /\ CallRefresh(a, "refresh", token)
              /\ UNCHANGED sessions
         ELSE /\ Returns("refresh", token, "not_refreshed")
              /\ UNCHANGED <<sessions, access, refreshes>>
    /\ UNCHANGED <<now, tokens, jwt_lib, chatVars, classifyVars, resolveVars, envVars>>

\* AuthService.refresh_session from the return of refresh_access_token on:
\* its errors propagate to the route, which answers 401.
SessionRefreshReturn(a) ==
    /\ access[a].pc = "await_refresh" /\ access[a].path = "refresh"
    /\ LET token == access[a].token
           new_token == access[a].new_token
       IN  \E outcome \in RefreshOutcomes, expires_in \in ExpiresIn :
             /\ RefreshReturns(a, outcome)
             /\ IF outcome = "ok"
                THEN /\ sessions' = UpdateTokens(token, jwt_lib, new_token, expires_in)
                     /\ Returns("refresh", token, "refreshed")
                ELSE /\ UNCHANGED sessions
                     /\ Returns("refresh", token, "401")
    /\ UNCHANGED <<now, tokens, jwt_lib, chatVars, classifyVars, resolveVars, envVars>>

-----------------------------------------------------------------------------
(* The intent classifier: intent_parser.py, ai_service.parse_intent *)

\* Messages are sequences of at most MaxWords words.
MaxWords == 2

\* A vocabulary with words of every pattern group, and one of none.
Words == {"show", "email", "reply", "delete", "sort", "digest", "yes",
          "confirm", "no", "dont", "help", "hi", "thanks"}

Messages == UNION {[1..n -> Words] : n \in 0..MaxWords}

\* Confidences, in percent.
ConfidenceThresholdHigh == 85
RuleConfidence == 90
DefaultAiConfidence == 50

AlwaysConfirm == {"DELETE", "REPLY"}

\* \b(w)\b : one of the words occurs in the message.
Has(message, words) == \E i \in DOMAIN message : message[i] \in words

\* ^(w)$ : the message is one of the words.
Is(message, words) == Len(message) = 1 /\ message[1] \in words

\* \b(v)\b.*\b(w)\b : one of the first words occurs before one of the second.
Then(message, first, second) ==
    \E i, j \in DOMAIN message : i < j /\ message[i] \in first /\ message[j] \in second

\* Faulty variant: CONFIRM and CANCEL are listed first.
IntentPatternsConfirmFirst ==
    <<"CONFIRM", "CANCEL", "READ_EMAILS", "REPLY", "DELETE", "CATEGORIZE",
      "DIGEST", "HELP", "GREETING">>

\* The keys of INTENT_PATTERNS, in the order the dict lists them.
IntentPatterns ==
    <<"READ_EMAILS", "REPLY", "DELETE", "CATEGORIZE", "DIGEST", "CONFIRM",
      "CANCEL", "HELP", "GREETING">>

\* re.search of the patterns of an intent, over the vocabulary.
Matches(intent, message) ==
    CASE intent = "READ_EMAILS" -> \/ Then(message, {"show"}, {"email"})
                                   \/ Is(message, {"email"})
      [] intent = "REPLY"       -> Has(message, {"reply"})
      [] intent = "DELETE"      -> Has(message, {"delete"})
      [] intent = "CATEGORIZE"  -> Has(message, {"sort"})
      [] intent = "DIGEST"      -> Has(message, {"digest"})
      [] intent = "CONFIRM"     -> \/ Is(message, {"yes", "confirm"})
                                   \/ Has(message, {"confirm"})
      [] intent = "CANCEL"      -> \/ Is(message, {"no"})
                                   \/ Has(message, {"dont"})
      [] intent = "HELP"        -> Is(message, {"help"})
      [] intent = "GREETING"    -> Is(message, {"hi"})
      [] OTHER                  -> FALSE

\* rule_based_parse returned None.
NoParse == [intent |-> None, confidence |-> 0, requires_confirmation |-> FALSE]

\* ParsedIntent(intent, confidence, requires_confirmation=intent in ALWAYS_CONFIRM)
ParsedIntent(intent, confidence) ==
    [intent |-> intent, confidence |-> confidence,
     requires_confirmation |-> intent \in AlwaysConfirm]

\* The loop of rule_based_parse, from the i-th intent of the table on.
RECURSIVE WalkPatterns(_, _)
WalkPatterns(i, message) ==
    IF i > Len(IntentPatterns) THEN NoParse
    ELSE IF Matches(IntentPatterns[i], message)
         THEN ParsedIntent(IntentPatterns[i], RuleConfidence)
         ELSE WalkPatterns(i + 1, message)

\* Faulty variant: a rule match is reported below the high threshold.
RuleBasedParseUnsure(message) ==
    IF WalkPatterns(1, message) = NoParse THEN NoParse
    ELSE [WalkPatterns(1, message) EXCEPT !.confidence = 80]

\* rule_based_parse
RuleBasedParse(message) == WalkPatterns(1, message)

\* What the generative model's call comes to: complete raises AIError, the
\* text is not JSON, the JSON is not an object, or it is an object whose
\* fields "intent" and "confidence" are present or not.
Missing == "missing"
NoConfidence == -1
AiFailures == {"AIError", "not_json", "not_object"}
AiIntents == {"DELETE", "CONFIRM", "UNKNOWN", "ARCHIVE", Missing}
AiConfidences == {0, 30, 40, 95}
AiObjects == [kind : {"object"}, intent : AiIntents,
              confidence : AiConfidences \cup {NoConfidence}]
AiReplies ==
    [kind : AiFailures, intent : {Missing}, confidence : {NoConfidence}]
        \cup AiObjects
NoReply == [kind |-> None, intent |-> Missing, confidence |-> NoConfidence]

\* default={"intent": "UNKNOWN", "confidence": 0, "params": {}}
AiDefault == [intent |-> "UNKNOWN", confidence |-> 0]

\* ai_service.parse_intent: every failure comes back as the default.
AiParseIntent(reply) ==
    IF reply.kind \in AiFailures THEN AiDefault
    ELSE [intent |-> reply.intent, confidence |-> reply.confidence]

\* Faulty variant: the intent string is taken as it comes.
IntentFromStringUnchecked(intent_str) == intent_str

\* ai_result.get("intent", "UNKNOWN"), then Intent(intent_str) with ValueError
\* caught.
IntentFromString(intent_str) ==
    IF intent_str = Missing THEN "UNKNOWN"
    ELSE IF intent_str \in Intents THEN intent_str
    ELSE "UNKNOWN"

\* parse_message after ai_parse_intent returned.
ParsedFromAi(ai_result) ==
    ParsedIntent(IntentFromString(ai_result.intent),
                 IF ai_result.confidence = NoConfidence THEN DefaultAiConfidence
                 ELSE ai_result.confidence)

\* No parse_message call was made yet.
IdleParse == [pc |-> "idle", message |-> <<>>, has_pending_action |-> FALSE,
              rule_result |-> NoParse, ai_called |-> FALSE, reply |-> NoReply,
              result |-> NoParse, handler |-> None]

\* parse_message, up to its return or to await ai_parse_intent.
ParseMessage ==
    /\ parse.pc = "idle"
    /\ \E message \in Messages, has_pending_action \in BOOLEAN :
          LET quick_check == RuleBasedParse(message)
              rule_result == RuleBasedParse(message)
              call == [pc |-> "done", message |-> message,
                       has_pending_action |-> has_pending_action,
                       rule_result |-> rule_result, ai_called |-> FALSE,
                       reply |-> NoReply, result |-> NoParse, handler |-> None]
          IN  IF /\ has_pending_action
                 /\ quick_check # NoParse
                 /\ quick_check.intent \in {"CONFIRM", "CANCEL"}
              THEN parse' = [call EXCEPT !.result = quick_check]
              ELSE IF /\ rule_result # NoParse
                      /\ rule_result.confidence >= ConfidenceThresholdHigh
                   THEN parse' = [call EXCEPT !.result = rule_result]
                   ELSE parse' = [call EXCEPT !.pc = "await_ai", !.ai_called = TRUE]
    /\ UNCHANGED <<chatVars, storeVars, resolveVars, envVars>>

\* ai_parse_intent returns, and parse_message with it. (It raises nothing:
\* the except branch of parse_message, which would return the rule result
\* or UNKNOWN with confidence 0, is never entered.)
AiReturn ==
    /\ parse.pc = "await_ai"
    /\ \E reply \in AiReplies :
          parse' = [parse EXCEPT !.pc = "done", !.reply = reply,
                                 !.result = ParsedFromAi(AiParseIntent(reply))]
    /\ UNCHANGED <<chatVars, storeVars, resolveVars, envVars>>

\* process_message has the result of parse_message and the guard fires: the
\* clarification is returned, no handler runs.
LowConfidenceGuard ==
    /\ parse.pc = "done"
    /\ LowConfidence(parse.result.intent, parse.result.confidence)
    /\ parse' = [parse EXCEPT !.pc = "answered"]
    /\ resp' = ChatResponse(parse.result.intent, "low_confidence", "text", None)
    /\ UNCHANGED <<emails_cache, pending_action, pending_data, pending_src,
                   trashed, req, sent, deleted, stored, cancelled, storeVars,
                   resolveVars, envVars>>

\* _handle_intent: handlers.get(parsed.intent, self._handle_unknown); every
\* member of Intent is a key of the dict.
HandlerOf(intent) == IF intent \in Intents THEN intent ELSE "UNKNOWN"

\* process_message has the result of parse_message and the guard lets it
\* through: the handler of the intent is called.
HandleIntent ==
    /\ parse.pc = "done"
    /\ ~LowConfidence(parse.result.intent, parse.result.confidence)
    /\ parse' = [parse EXCEPT !.pc = "dispatched",
                              !.handler = HandlerOf(parse.result.intent)]
    /\ UNCHANGED <<chatVars, storeVars, resolveVars, envVars>>

-----------------------------------------------------------------------------
(* Resolving a reference of the user's to a cached email, character by
   character *)

\* A text is a sequence of characters.
Uppers == <<"A", "B", "C", "D", "E", "F", "G", "H", "I", "J", "K", "L", "M",
            "N", "O", "P", "Q", "R", "S", "T", "U", "V", "W", "X", "Y", "Z">>
Lowers == <<"a", "b", "c", "d", "e", "f", "g", "h", "i", "j", "k", "l", "m",
            "n", "o", "p", "q", "r", "s", "t", "u", "v", "w", "x", "y", "z">>
Digits == <<"0", "1", "2", "3", "4", "5", "6", "7", "8", "9">>

Range(seq) == {seq[i] : i \in DOMAIN seq}

Whitespace == {" "}                                                \* \s
DigitChars == Range(Digits)                                        \* \d
WordChars == Range(Uppers) \cup Range(Lowers) \cup DigitChars \cup {"_"}   \* \w

Least(S) == CHOOSE i \in S : \A j \in S : i <= j

\* str.lower()
Lower(text) ==
    [i \in DOMAIN text |->
        IF \E k \in DOMAIN Uppers : Uppers[k] = text[i]
        THEN Lowers[CHOOSE k \in DOMAIN Uppers : Uppers[k] = text[i]]
        ELSE text[i]]

\* str.strip()
Strip(text) ==
    LET kept == {i \in DOMAIN text : text[i] \notin Whitespace}
    IN  IF kept = {} THEN <<>>
        ELSE SubSeq(text, Least(kept), CHOOSE i \in kept : \A j \in kept : j <= i)

\* text[i:].startswith(word)
OccursAt(text, word, i) ==
    /\ i >= 1
    /\ i + Len(word) - 1 <= Len(text)
    /\ SubSeq(text, i, i + Len(word) - 1) = word

\* word in text
Contains(text, word) == \E i \in 1..(Len(text) + 1) : OccursAt(text, word, i)

\* The length of the longest run of characters of the class that starts at
\* position i: what a greedy \s*, \d+ or \w+ takes there.
RunLen(text, i, class) ==
    CHOOSE n \in 0..Len(text) :
        /\ \A k \in i..(i + n - 1) : k <= Len(text) /\ text[k] \in class
        /\ i + n > Len(text) \/ text[i + n] \notin class

RECURSIVE ToInt(_)
\* int(digits)
ToInt(digits) ==
    IF digits = <<>> THEN 0
    ELSE ToInt(SubSeq(digits, 1, Len(digits) - 1)) * 10
            + (CHOOSE d \in 0..9 : Digits[d + 1] = digits[Len(digits)])

RECURSIVE Remove(_, _)
\* text.replace(word, "")
Remove(text, word) ==
    IF Len(text) < Len(word) THEN text
    ELSE IF OccursAt(text, word, 1)
         THEN Remove(SubSeq(text, Len(word) + 1, Len(text)), word)
         ELSE <<Head(text)>> \o Remove(Tail(text), word)

RECURSIVE Split(_)
\* text.split()
Split(text) ==
    IF text = <<>> THEN <<>>
    ELSE IF Head(text) \in Whitespace THEN Split(Tail(text))
    ELSE LET n == Least({k \in 1..Len(text) :
                            k = Len(text) \/ text[k + 1] \in Whitespace})
         IN  <<SubSeq(text, 1, n)>> \o Split(SubSeq(text, n + 1, Len(text)))

\* re.search found nothing (a group of these patterns is never empty).
NoMatch == <<>>

\* The group of re.search(word \s* (\d+), text), or of word (\d+) when no
\* whitespace may stand between them: of the leftmost match.
SearchNumber(text, word, spaced) ==
    LET spaces(i) == IF spaced THEN RunLen(text, i + Len(word), Whitespace) ELSE 0
        first(i) == i + Len(word) + spaces(i)
        starts == {i \in DOMAIN text :
                      /\ OccursAt(text, word, i)
                      /\ RunLen(text, first(i), DigitChars) >= 1}
    IN  IF starts = {} THEN NoMatch
        ELSE LET i == Least(starts)
             IN  SubSeq(text, first(i), first(i) + RunLen(text, first(i), DigitChars) - 1)

\* The group of re.search(^(\d+)$, text).
SearchOnlyDigits(text) ==
    IF text # <<>> /\ \A i \in DOMAIN text : text[i] \in DigitChars THEN text
    ELSE NoMatch

\* The group of re.search(word \s+ (\w+), text), or of
\* word \s+ (\w+) \s+ tail when a tail is given: of the leftmost match.
SearchWordAfter(text, word, tail) ==
    LET first(i) == i + Len(word) + RunLen(text, i + Len(word), Whitespace)
        after(i) == first(i) + RunLen(text, first(i), WordChars)
        starts == {i \in DOMAIN text :
                      /\ OccursAt(text, word, i)
                      /\ first(i) > i + Len(word)
                      /\ after(i) > first(i)
                      /\ tail # <<>> =>
                            /\ RunLen(text, after(i), Whitespace) >= 1
                            /\ OccursAt(text, tail,
                                        after(i) + RunLen(text, after(i), Whitespace))}
    IN  IF starts = {} THEN NoMatch
        ELSE SubSeq(text, first(Least(starts)), after(Least(starts)) - 1)

\* The group of re.search((\w+) 's \s+ email, text).
SearchPossessive(text) ==
    LET after(i) == i + RunLen(text, i, WordChars)
        starts == {i \in DOMAIN text :
                      /\ after(i) > i
                      /\ OccursAt(text, <<"'", "s">>, after(i))
                      /\ RunLen(text, after(i) + 2, Whitespace) >= 1
                      /\ OccursAt(text, <<"e", "m", "a", "i", "l">>,
                                  after(i) + 2 + RunLen(text, after(i) + 2, Whitespace))}
    IN  IF starts = {} THEN NoMatch
        ELSE SubSeq(text, Least(starts), after(Least(starts)) - 1)

\* The group of re.search(word \s+ (.+), text), or of word \s* (.+) when the
\* whitespace may be missing: the rest of the text. (The text is stripped,
\* so whitespace is never the last of it.)
SearchRest(text, word, spaced) ==
    LET first(i) == i + Len(word) + RunLen(text, i + Len(word), Whitespace)
        starts == {i \in DOMAIN text :
                      /\ OccursAt(text, word, i)
                      /\ spaced => first(i) > i + Len(word)
                      /\ first(i) <= Len(text)}
    IN  IF starts = {} THEN NoMatch
        ELSE SubSeq(text, first(Least(starts)), Len(text))

\* _resolve_index: the ordinals dict, in its order.
Ordinals(cache) ==
    <<[word |-> <<"f", "i", "r", "s", "t">>, idx |-> 1],
      [word |-> <<"s", "e", "c", "o", "n", "d">>, idx |-> 2],
      [word |-> <<"t", "h", "i", "r", "d">>, idx |-> 3],
      [word |-> <<"f", "o", "u", "r", "t", "h">>, idx |-> 4],
      [word |-> <<"f", "i", "f", "t", "h">>, idx |-> 5],
      [word |-> <<"1", "s", "t">>, idx |-> 1],
      [word |-> <<"2", "n", "d">>, idx |-> 2],
      [word |-> <<"3", "r", "d">>, idx |-> 3],
      [word |-> <<"4", "t", "h">>, idx |-> 4],
      [word |-> <<"5", "t", "h">>, idx |-> 5],
      [word |-> <<"l", "a", "s", "t">>, idx |-> Len(cache)],
      [word |-> <<"l", "a", "t", "e", "s", "t">>, idx |-> 1],
      [word |-> <<"m", "o", "s", "t", " ", "r", "e", "c", "e", "n", "t">>, idx |-> 1]>>

\* _resolve_index: the groups of the four number patterns, in their order.
IndexPatterns(reference) ==
    <<SearchNumber(reference, <<"#">>, FALSE),          \* #(\d+)
      SearchNumber(reference, <<"e", "m", "a", "i", "l">>, TRUE),    \* email\s*(\d+)
      SearchNumber(reference, <<"n", "u", "m", "b", "e", "r">>, TRUE),    \* number\s*(\d+)
      SearchOnlyDigits(reference)>>                    \* ^(\d+)$

\* _resolve_index: the first ordinal word found in the reference whose index
\* is in range decides; else the first pattern whose number is in range.
ResolveIndexText(reference, cache) ==
    LET ordinals == Ordinals(cache)
        words == {k \in DOMAIN ordinals :
                     /\ Contains(reference, ordinals[k].word)
                     /\ 1 <= ordinals[k].idx /\ ordinals[k].idx <= Len(cache)}
        groups == IndexPatterns(reference)
        numbers == {k \in DOMAIN groups :
                       /\ groups[k] # NoMatch
                       /\ 1 <= ToInt(groups[k]) /\ ToInt(groups[k]) <= Len(cache)}
    IN  IF words # {} THEN cache[ordinals[Least(words)].idx]
        ELSE IF numbers # {} THEN cache[ToInt(groups[Least(numbers)])]
        ELSE NoEmail

\* _resolve_sender: the groups of the four sender patterns, in their order.
SenderPatterns(reference) ==
    <<SearchWordAfter(reference, <<"f", "r", "o", "m">>, <<>>),     \* from\s+(\w+)
      SearchPossessive(reference),                                 \* (\w+)'s\s+email
      SearchWordAfter(reference, <<"t", "h", "e">>, <<"o", "n", "e">>),     \* the\s+(\w+)\s+one
      SearchWordAfter(reference, <<"t", "h", "e">>, <<"e", "m", "a", "i", "l">>)>>    \* the\s+(\w+)\s+email

\* f"{email['sender_name']} {email['sender_email']}".lower()
SenderCombined(email) == Lower(email.sender_name \o <<" ">> \o email.sender_email)

\* _resolve_sender: the first pattern whose name some email's sender holds
\* decides, and for it the first such email of the cache; else the first
\* email whose sender holds a word of the reference longer than two
\* characters ("from" and "email" cut out of the reference first).
ResolveSender(reference, cache) ==
    LET groups == SenderPatterns(reference)
        holds(k, e) == \/ Contains(Lower(cache[e].sender_name), Lower(groups[k]))
                       \/ Contains(Lower(cache[e].sender_email), Lower(groups[k]))
        found == {k \in DOMAIN groups :
                     groups[k] # NoMatch /\ \E e \in DOMAIN cache : holds(k, e)}
        words == Split(Remove(Remove(reference, <<"f", "r", "o", "m">>),
                              <<"e", "m", "a", "i", "l">>))
        general == {e \in DOMAIN cache :
                       \E w \in DOMAIN words :
                           /\ Len(words[w]) > 2
                           /\ Contains(SenderCombined(cache[e]), words[w])}
    IN  IF found # {}
        THEN cache[Least({e \in DOMAIN cache : holds(Least(found), e)})]
        ELSE IF general # {} THEN cache[Least(general)]
        ELSE NoEmail

\* _resolve_subject: the groups of the three topic patterns, in their order.
SubjectPatterns(reference) ==
    <<SearchRest(reference, <<"a", "b", "o", "u", "t">>, TRUE),         \* about\s+(.+)
      SearchRest(reference, <<"r", "e", "g", "a", "r", "d", "i", "n", "g">>, TRUE),    \* regarding\s+(.+)
      SearchRest(reference, <<"r", "e", ":">>, FALSE)>>                 \* re:\s*(.+)

\* _resolve_subject: the first pattern whose topic some email's subject holds
\* decides, and for it the first such email of the cache; else the first
\* email whose subject holds a word of the reference longer than three
\* characters.
ResolveSubject(reference, cache) ==
    LET groups == SubjectPatterns(reference)
        holds(k, e) == Contains(Lower(cache[e].subject), Strip(Lower(groups[k])))
        found == {k \in DOMAIN groups :
                     groups[k] # NoMatch /\ \E e \in DOMAIN cache : holds(k, e)}
        words == Split(reference)
        fallback == {e \in DOMAIN cache :
                        \E w \in DOMAIN words :
                            /\ Len(words[w]) > 3
                            /\ Contains(Lower(cache[e].subject), words[w])}
    IN  IF found # {}
        THEN cache[Least({e \in DOMAIN cache : holds(Least(found), e)})]
        ELSE IF fallback # {} THEN cache[Least(fallback)]
        ELSE NoEmail

\* Faulty variant: the subject strategy is tried before the sender strategy.
ResolveReferenceSubjectFirst(reference, cache) ==
    LET lowered == Strip(Lower(reference))
    IN  IF cache = <<>> THEN NoEmail
        ELSE IF ResolveIndexText(lowered, cache) # NoEmail
        THEN ResolveIndexText(lowered, cache)
        ELSE IF ResolveSubject(lowered, cache) # NoEmail
        THEN ResolveSubject(lowered, cache)
        ELSE ResolveSender(lowered, cache)

\* resolve_email_reference, for the text of a reference.
ResolveReference(reference, cache) ==
    LET lowered == Strip(Lower(reference))
    IN  IF cache = <<>> THEN NoEmail
        ELSE IF ResolveIndexText(lowered, cache) # NoEmail
        THEN ResolveIndexText(lowered, cache)
        ELSE IF ResolveSender(lowered, cache) # NoEmail
        THEN ResolveSender(lowered, cache)
        ELSE ResolveSubject(lowered, cache)

\* The references tried.
References ==
    {<<"#", "1">>,
     <<"3">>,
     <<"#", "9">>,
     <<" ", "#", "2", " ">>,
     <<"e", "m", "a", "i", "l", " ", "2">>,
     <<"e", "m", "a", "i", "l", " ", "9">>,
     <<"n", "u", "m", "b", "e", "r", " ", "1">>,
     <<"n", "u", "m", "b", "e", "r", " ", "9">>,
     <<"#", "1", "2", "3", "4", "5">>,
     <<"l", "a", "s", "t">>,
     <<"t", "h", "e", " ", "s", "e", "c", "o", "n", "d", " ", "o", "n", "e">>,
     <<"S", "e", "n", "d", "e", "r", " ", "2">>,
     <<"S", "u", "b", "j", "e", "c", "t", " ", "3">>,
     <<"n", "o", "n", "e", "x", "i", "s", "t", "e", "n", "t">>,
     <<"f", "r", "o", "m", " ", "a", "l", "i", "c", "e">>,
     <<"a", "b", "o", "u", "t", " ", "i", "n", "v", "o", "i", "c", "e">>,
     <<"a", "l", "i", "c", "e", "'", "s", " ", "e", "m", "a", "i", "l">>,
     <<"r", "e", ":", " ", "o", "r", "d", "e", "r">>}

\* The cache of the repository's tests (tests/conftest.py, mock_emails_list),
\* its first three emails.
MockEmails ==
  <<
    \* Sender 1 <sender1@example.com>: Test Subject 1
    [id |-> 1, index |-> 1,
     sender_name |-> <<"S", "e", "n", "d", "e", "r", " ", "1">>,
     sender_email |-> <<"s", "e", "n", "d", "e", "r", "1", "@", "e", "x", "a", "m", "p", "l", "e", ".", "c", "o", "m">>,
     subject |-> <<"T", "e", "s", "t", " ", "S", "u", "b", "j", "e", "c", "t", " ", "1">>],
    \* Sender 2 <sender2@example.com>: Test Subject 2
    [id |-> 2, index |-> 2,
     sender_name |-> <<"S", "e", "n", "d", "e", "r", " ", "2">>,
     sender_email |-> <<"s", "e", "n", "d", "e", "r", "2", "@", "e", "x", "a", "m", "p", "l", "e", ".", "c", "o", "m">>,
     subject |-> <<"T", "e", "s", "t", " ", "S", "u", "b", "j", "e", "c", "t", " ", "2">>],
    \* Sender 3 <sender3@example.com>: Test Subject 3
    [id |-> 3, index |-> 3,
     sender_name |-> <<"S", "e", "n", "d", "e", "r", " ", "3">>,
     sender_email |-> <<"s", "e", "n", "d", "e", "r", "3", "@", "e", "x", "a", "m", "p", "l", "e", ".", "c", "o", "m">>,
     subject |-> <<"T", "e", "s", "t", " ", "S", "u", "b", "j", "e", "c", "t", " ", "3">>]
  >>

\* A cache of four emails from three senders.
ThreeSenders ==
  <<
    \* Bob <bob@mail.io>: Invoice for alice
    [id |-> 1, index |-> 1,
     sender_name |-> <<"B", "o", "b">>,
     sender_email |-> <<"b", "o", "b", "@", "m", "a", "i", "l", ".", "i", "o">>,
     subject |-> <<"I", "n", "v", "o", "i", "c", "e", " ", "f", "o", "r", " ", "a", "l", "i", "c", "e">>],
    \* Alice Ray <alice@corp.io>: Order #12345 shipped
    [id |-> 2, index |-> 2,
     sender_name |-> <<"A", "l", "i", "c", "e", " ", "R", "a", "y">>,
     sender_email |-> <<"a", "l", "i", "c", "e", "@", "c", "o", "r", "p", ".", "i", "o">>,
     subject |-> <<"O", "r", "d", "e", "r", " ", "#", "1", "2", "3", "4", "5", " ", "s", "h", "i", "p", "p", "e", "d">>],
    \* Phone Number Co <noreply@phone.io>: Lunch
    [id |-> 3, index |-> 3,
     sender_name |-> <<"P", "h", "o", "n", "e", " ", "N", "u", "m", "b", "e", "r", " ", "C", "o">>,
     sender_email |-> <<"n", "o", "r", "e", "p", "l", "y", "@", "p", "h", "o", "n", "e", ".", "i", "o">>,
     subject |-> <<"L", "u", "n", "c", "h">>],
    \* Alice Ray <alice@corp.io>: Confirm your email address
    [id |-> 4, index |-> 4,
     sender_name |-> <<"A", "l", "i", "c", "e", " ", "R", "a", "y">>,
     sender_email |-> <<"a", "l", "i", "c", "e", "@", "c", "o", "r", "p", ".", "i", "o">>,
     subject |-> <<"C", "o", "n", "f", "i", "r", "m", " ", "y", "o", "u", "r", " ", "e", "m", "a", "i", "l", " ", "a", "d", "d", "r", "e", "s", "s">>]
  >>

\* The caches tried: empty, the two above, and the second after a delete.
Caches == {<<>>, MockEmails, ThreeSenders, Tail(ThreeSenders)}

\* No resolve_email_reference call was made yet: its arguments.
ResolveInputs ==
    [reference : References, cache : Caches, returned : {FALSE}, result : {NoEmail}]

IdleResolve == [reference |-> <<>>, cache |-> <<>>, returned |-> FALSE,
                result |-> NoEmail]

\* resolve_email_reference runs on its arguments and returns.
ResolveEmailReferenceCall ==
    /\ ~resolve.returned
    /\ resolve' = [resolve EXCEPT
                      !.returned = TRUE,
                      !.result = ResolveReference(resolve.reference, resolve.cache)]
    /\ UNCHANGED <<chatVars, storeVars, classifyVars, extract, request, envVars>>

-----------------------------------------------------------------------------
(* The reply content of a REPLY message: intent_parser.extract_reply_content,
   character by character *)

Quotes == {"'", "\""}                                              \* ["\']

\* extract_reply_content returns None (a text is a sequence of characters,
\* and the empty text is not None).
NoneText == <<"None">>

\* The group of ["\']?(.+?)["\']?$ matched from position p on: what is left
\* of the text (no line ends in it), less a quote that opens it and less a
\* quote that closes it, so far as a character remains.
ContentFrom(text, p) ==
    LET end == Len(text)
        q == IF p < end /\ text[p] \in Quotes THEN p + 1 ELSE p
        e == IF end > q /\ text[end] \in Quotes THEN end - 1 ELSE end
    IN  IF p > end THEN NoMatch ELSE SubSeq(text, q, e)

\* (?!to\b) at position j of the lowered text: "to" stands there as a word.
ToFollows(low, j) ==
    /\ OccursAt(low, <<"t", "o">>, j)
    /\ j + 2 > Len(low) \/ low[j + 2] \notin WordChars

\* The group of re.search(P, text, re.IGNORECASE) for a pattern P of
\* REPLY_CONTENT_PATTERNS: head, then (if second is given) \s+ and second,
\* then a greedy run of the class of at least `least` characters, then (if
\* guarded) the lookahead, then the group to the end of the text. Of the
\* leftmost match, with the longest run that leaves the rest a match.
SearchContent(text, head, second, class, least, guarded) ==
    LET low == Lower(text)
        gap(i) == RunLen(text, i + Len(head), Whitespace)
        from(i) == IF second = <<>> THEN i + Len(head)
                   ELSE i + Len(head) + gap(i) + Len(second)
        fits(i, k) ==
            /\ least <= k /\ k <= RunLen(text, from(i), class)
            /\ from(i) + k <= Len(text)
            /\ guarded => ~ToFollows(low, from(i) + k)
        starts == {i \in DOMAIN text :
                      /\ OccursAt(low, head, i)
                      /\ second # <<>> =>
                            gap(i) >= 1 /\ OccursAt(low, second, i + Len(head) + gap(i))
                      /\ \E k \in 0..Len(text) : fits(i, k)}
    IN  IF starts = {} THEN NoMatch
        ELSE LET i == Least(starts)
                 k == CHOOSE n \in 0..Len(text) :
                         fits(i, n) /\ \A m \in 0..Len(text) : fits(i, m) => m <= n
             IN  ContentFrom(text, from(i) + k)

\* Faulty variant: the pattern for "reply <content>" has lost its lookahead.
ReplyContentPatternsUnguarded(message) ==
    <<SearchContent(message, <<"r", "e", "p", "l", "y", ":">>, <<>>, Whitespace, 0, FALSE),
      SearchContent(message, <<"r", "e", "p", "l", "y">>, <<>>, Whitespace, 1, FALSE),
      SearchContent(message, <<"r", "e", "s", "p", "o", "n", "d">>, <<"w", "i", "t", "h">>, {":"} \cup Whitespace, 1, FALSE),
      SearchContent(message, <<"s", "a", "y">>, <<>>, {":"} \cup Whitespace, 1, FALSE),
      SearchContent(message, <<"t", "e", "l", "l">>, <<"t", "h", "e", "m">>, {":"} \cup Whitespace, 1, FALSE)>>

\* REPLY_CONTENT_PATTERNS: the groups of the five patterns, in their order.
ReplyContentPatterns(message) ==
    <<SearchContent(message, <<"r", "e", "p", "l", "y", ":">>, <<>>, Whitespace, 0, FALSE),         \* reply:\s*
      SearchContent(message, <<"r", "e", "p", "l", "y">>, <<>>, Whitespace, 1, TRUE),           \* reply\s+(?!to\b)
      SearchContent(message, <<"r", "e", "s", "p", "o", "n", "d">>, <<"w", "i", "t", "h">>, {":"} \cup Whitespace, 1, FALSE), \* respond\s+with[:\s]+
      SearchContent(message, <<"s", "a", "y">>, <<>>, {":"} \cup Whitespace, 1, FALSE),     \* say[:\s]+
      SearchContent(message, <<"t", "e", "l", "l">>, <<"t", "h", "e", "m">>, {":"} \cup Whitespace, 1, FALSE)>>   \* tell\s+them[:\s]+

\* extract_reply_content: the stripped group of the first pattern that
\* matches; or else what follows the first colon, stripped, if that is more
\* than two characters; or else None.
ExtractReplyContent(message) ==
    LET groups == ReplyContentPatterns(message)
        hits == {n \in DOMAIN groups : groups[n] # NoMatch}
        colons == {i \in DOMAIN message : message[i] = ":"}
        rest == Strip(SubSeq(message, Least(colons) + 1, Len(message)))
    IN  IF hits # {} THEN Strip(groups[Least(hits)])
        ELSE IF colons # {} /\ Len(rest) > 2 THEN rest
        ELSE NoneText

\* The ways a message addresses the email it answers: as the tests write it,
\* capitalised, and with a second space.
ReplyCommands ==
    {<<"r", "e", "p", "l", "y", " ", "t", "o", " ">>,
     <<"R", "e", "p", "l", "y", " ", "t", "o", " ">>,
     <<"r", "e", "p", "l", "y", " ", " ", "t", "o", " ">>}

\* The references of the addressing part.
ReplyReferences ==
    {<<"#", "1">>,
     <<"2">>,
     <<"b", "o", "b">>,
     <<"e", "m", "a", "i", "l", " ", "2">>,
     <<"t", "h", "e", " ", "f", "i", "r", "s", "t", " ", "o", "n", "e">>,
     <<"t", "h", "e", " ", "r", "e", "p", "l", "y", " ", "f", "r", "o", "m", " ", "b", "o", "b">>}

\* The content that may follow the addressing part after ": ".
ReplyTexts ==
    {<<"I", " ", "a", "g", "r", "e", "e">>,
     <<"o", "k">>,
     <<"t", "h", "a", "n", "k", "s", "!">>,
     <<"'", "t", "h", "a", "n", "k", "s", "'">>,
     <<"p", "l", "e", "a", "s", "e", " ", "s", "a", "y", " ", "h", "e", "l", "l", "o">>}

\* "reply to <reference>", or "reply to <reference>: <content>".
ReplyMessage(command, reference, content) ==
    command \o reference \o (IF content = NoneText THEN <<>>
                             ELSE <<":", " ">> \o content)

ExtractInputs ==
    {[command |-> c, reference |-> r, content |-> x,
      message |-> ReplyMessage(c, r, x), returned |-> FALSE, result |-> NoneText] :
        c \in ReplyCommands, r \in ReplyReferences, x \in ReplyTexts \cup {NoneText}}

IdleExtract ==
    [command |-> <<>>, reference |-> <<>>, content |-> NoneText,
     message |-> <<>>, returned |-> TRUE, result |-> NoneText]

\* extract_reply_content runs on its argument and returns.
ExtractReplyContentCall ==
    /\ ~extract.returned
    /\ extract' = [extract EXCEPT
                      !.returned = TRUE,
                      !.result = ExtractReplyContent(extract.message)]
    /\ UNCHANGED <<chatVars, storeVars, classifyVars, resolve, request, envVars>>

-----------------------------------------------------------------------------
(* GmailClient._make_request: one request to the Gmail API, with retries *)

\* The statuses a response may carry: success with and without a body, a
\* client error, the two authorisation errors, not found, rate limit, and a
\* server error.
Statuses == {200, 204, 400, 401, 403, 404, 429, 503}

\* response.content: a JSON document, nothing, or a text that is no JSON.
Contents == {"json", "empty", "text"}

\* What client.request does: it returns a response, or it raises. ReadError
\* stands for the exceptions that are neither a timeout nor a ConnectError.
Outcomes ==
    [raised : {"None"}, status : Statuses, content : Contents]
        \cup [raised : {"TimeoutException", "ConnectError", "ReadError"},
              status : {0}, content : {"empty"}]

Returned(value) == [kind |-> "return", value |-> value]

Raised(class, message) == [kind |-> class, value |-> message]

\* `continue` after asyncio.sleep(2 ** attempt).
Continue == [kind |-> "continue", value |-> "sleep"]

\* `except Exception`: whatever is neither a timeout, a ConnectError, an
\* AuthError nor a GmailError becomes a GmailError.
Unexpected == Raised("GmailError", "Unexpected error")

\* response.json() raises when the content is no JSON document.
ResponseJson(response) ==
    IF response.content = "json" THEN Returned("body") ELSE Unexpected

\* Faulty variant: a 429 or a 5xx is retried whatever the attempt is.
HandleResponseAlways(response, attempt, retries) ==
    IF 200 <= response.status /\ response.status < 300
    THEN IF response.status = 204 \/ response.content = "empty"
         THEN Returned("{}")
         ELSE ResponseJson(response)
    ELSE IF response.status = 429 \/ response.status >= 500
    THEN Continue
    ELSE IF response.status = 404
    THEN Returned("None")
    ELSE IF response.status = 401
    THEN Raised("AuthError", "Gmail access token expired")
    ELSE IF response.status = 403
    THEN Raised("GmailError", "Gmail permission denied. Please re-authorize.")
    ELSE IF response.content # "empty" /\ ResponseJson(response) = Unexpected
    THEN Unexpected
    ELSE Raised("GmailError", "Gmail API error")

\* The try block of one attempt, given the response: a 2xx returns; a 429 or
\* a 5xx is retried while attempts are left, and is otherwise an "other
\* error" like a 400, whose content is read for the log before the raise.
HandleResponse(response, attempt, retries) ==
    IF 200 <= response.status /\ response.status < 300
    THEN IF response.status = 204 \/ response.content = "empty"
         THEN Returned("{}")
         ELSE ResponseJson(response)
    ELSE IF (response.status = 429 \/ response.status >= 500)
            /\ attempt < retries
    THEN Continue
    ELSE IF response.status = 404
    THEN Returned("None")
    ELSE IF response.status = 401
    THEN Raised("AuthError", "Gmail access token expired")
    ELSE IF response.status = 403
    THEN Raised("GmailError", "Gmail permission denied. Please re-authorize.")
    ELSE IF response.content # "empty" /\ ResponseJson(response) = Unexpected
    THEN Unexpected
    ELSE Raised("GmailError", "Gmail API error")

\* The except clauses of one attempt, given what client.request raised.
HandleException(raised, attempt, retries) ==
    IF raised \in {"TimeoutException", "ConnectError"}
    THEN IF attempt < retries
         THEN Continue
         ELSE Raised("GmailError",
                     "Gmail service unavailable. Please try again later.")
    ELSE Unexpected

\* One pass of the loop body.
Attempt(outcome, attempt, retries) ==
    IF outcome.raised = "None"
    THEN HandleResponse(outcome, attempt, retries)
    ELSE HandleException(outcome.raised, attempt, retries)

NoResult == [kind |-> "none", value |-> "none"]

IdleRequest ==
    [pc |-> "idle", retries |-> 0, attempt |-> 0, history |-> <<>>,
     waited |-> 0, result |-> NoResult]

\* _make_request is called: the loop starts with attempt 0. With no attempt
\* to make the loop ends at once and the function returns None.
MakeRequestCall ==
    /\ request.pc \in {"idle", "done"}
    /\ \E retries \in 0..MaxRetries :
        request' = [pc |-> "request", retries |-> retries, attempt |-> 0,
                    history |-> <<>>, waited |-> 0, result |-> NoResult]
    /\ UNCHANGED <<chatVars, storeVars, classifyVars, resolve, extract, envVars>>

\* client.request answers or raises (within its timeout), and the rest of
\* the loop body runs up to the return, the raise or the sleep.
ClientRequest ==
    /\ request.pc = "request"
    /\ \E outcome \in Outcomes :
        LET step == Attempt(outcome, request.attempt, request.retries)
        IN  request' =
                IF step = Continue
                THEN [request EXCEPT
                         !.pc = "sleep",
                         !.history = Append(@, outcome),
                         !.waited = @ + 2 ^ request.attempt]
                ELSE [request EXCEPT
                         !.pc = "done",
                         !.history = Append(@, outcome),
                         !.result = step]
    /\ UNCHANGED <<chatVars, storeVars, classifyVars, resolve, extract, envVars>>

\* asyncio.sleep returns and `continue` takes the loop to the next attempt;
\* when range(retries + 1) is used up the function ends and returns None.
BackoffElapsed ==
    /\ request.pc = "sleep"
    /\ request' =
          IF request.attempt + 1 <= request.retries
          THEN [request EXCEPT !.pc = "request", !.attempt = @ + 1]
          ELSE [request EXCEPT !.pc = "done", !.attempt = @ + 1,
                               !.result = Returned("None")]
    /\ UNCHANGED <<chatVars, storeVars, classifyVars, resolve, extract, envVars>>

-----------------------------------------------------------------------------
(* The specification of the chat requests of one session *)

\* The session as create_session builds it, no request in flight.
InitSession ==
    /\ emails_cache = <<>>
    /\ pending_action = None
    /\ pending_data = NoneData
    /\ pending_src = 0
    /\ trashed = {}
    /\ req = [r \in Slots |-> IdleReq]
    /\ resp = NoResp
    /\ sent = <<>>
    /\ deleted = <<>>
    /\ stored = <<>>
    /\ cancelled = {}

\* The session of a user with a small inbox.
InitChat ==
    /\ InitSession
    /\ inbox = Inbox
    /\ budget = MaxStored

InitStore ==
    /\ sessions = <<>>
    /\ now = 0
    /\ tokens = {}
    /\ last = NoCall
    /\ access = [a \in AccessSlots |-> IdleAccess]
    /\ refreshes = <<>>
    /\ jwt_lib \in JwtLibs

InitClassify == parse = IdleParse

InitResolve ==
    resolve = IdleResolve /\ extract = IdleExtract /\ request = IdleRequest

\* The chat requests decode no token: one build stands for both.
Init == InitChat /\ InitStore /\ InitClassify /\ InitResolve /\ jwt_lib = "fractional"

\* The store, under either build of the jwt library.
InitAnyBuild == InitChat /\ InitStore /\ InitClassify /\ InitResolve

Next ==
    \/ \E r \in Slots : ReceiveMessage(r)
    \/ \E r \in Slots : ConfidenceTypeError(r)
    \/ \E r \in Slots : HandleReadEmails(r)
    \/ \E r \in Slots : HandleCategorize(r)
    \/ \E r \in Slots : HandleDigest(r)
    \/ \E r \in Slots : FetchReturn(r)
    \/ \E r \in Slots : SummarizeReturn(r)
    \/ \E r \in Slots : CategorizeReturn(r)
    \/ \E r \in Slots : DigestReturn(r)
    \/ \E r \in Slots : HandleReply(r)
    \/ \E r \in Slots : GenerateReplyReturn(r)
    \/ \E r \in Slots : HandleDelete(r)
    \/ \E r \in Slots : HandleConfirm(r)
    \/ \E r \in Slots : SendReturn(r)
    \/ \E r \in Slots : TrashReturn(r)
    \/ \E r \in Slots : HandleCancel(r)
    \/ \E r \in Slots : HandleUnknown(r)
    \/ \E r \in Slots : HandleHelp(r)
    \/ \E r \in Slots : HandleGreeting(r)
    \/ ClearPendingEndpoint

Spec == Init /\ [][Next]_vars

-----------------------------------------------------------------------------
(* The specification of the session store *)

Get == \E token \in Presented : GetSession(token)

\* POST /auth/logout
Logout == \E token \in Presented : DeleteSession(token)

NextStore ==
    \/ Tick
    \/ CreateSession
    \/ Get
    \/ Logout
    \/ \E a \in AccessSlots : GetCurrentSession(a)
    \/ \E a \in AccessSlots : CurrentRefreshReturn(a)
    \/ \E a \in AccessSlots : RefreshSession(a)
    \/ \E a \in AccessSlots : SessionRefreshReturn(a)

SpecStore == InitAnyBuild /\ [][NextStore]_vars

-----------------------------------------------------------------------------
(* The specification of the intent classifier *)

NextClassify == ParseMessage \/ AiReturn \/ LowConfidenceGuard \/ HandleIntent

SpecClassify == Init /\ [][NextClassify]_vars

-----------------------------------------------------------------------------
(* The specification of the reference resolver *)

\* Every reference tried against every cache tried.
InitInputs ==
    /\ InitChat /\ InitStore /\ InitClassify
    /\ jwt_lib = "fractional"
    /\ resolve \in ResolveInputs
    /\ extract = IdleExtract
    /\ request = IdleRequest

NextResolve == ResolveEmailReferenceCall

SpecResolve == InitInputs /\ [][NextResolve]_vars

-----------------------------------------------------------------------------
(* The specification of the extraction of the reply content *)

\* Every message tried.
InitMessages ==
    /\ InitChat /\ InitStore /\ InitClassify
    /\ jwt_lib = "fractional"
    /\ resolve = IdleResolve
    /\ extract \in ExtractInputs
    /\ request = IdleRequest

NextExtract == ExtractReplyContentCall

SpecExtract == InitMessages /\ [][NextExtract]_vars

-----------------------------------------------------------------------------
(* The specification of the automatic fetches of CATEGORIZE and DIGEST *)

\* Inboxes around the sizes the handlers decide by: empty, one short of the
\* ten CATEGORIZE wants, ten, and more than a fetch of twenty brings.
Inboxes ==
    {[i \in 1..n |-> n + 1 - i] :
        n \in {0, CategorizeMinCache - 1, CategorizeMinCache, MaxInbox}}

InitAutoFetch ==
    /\ InitSession /\ InitStore /\ InitClassify /\ InitResolve
    /\ jwt_lib = "fractional"
    /\ inbox \in Inboxes
    /\ budget = MaxStored

NextAutoFetch ==
    \/ \E r \in Slots : HandleReadEmails(r)
    \/ \E r \in Slots : HandleCategorize(r)
    \/ \E r \in Slots : HandleDigest(r)
    \/ \E r \in Slots : FetchReturn(r)
    \/ \E r \in Slots : SummarizeReturn(r)
    \/ \E r \in Slots : CategorizeReturn(r)
    \/ \E r \in Slots : DigestReturn(r)

SpecAutoFetch == InitAutoFetch /\ [][NextAutoFetch]_vars

-----------------------------------------------------------------------------
(* The specification of the pending action when requests store it again *)

\* The session of a user who gets to ask for a reply or a delete twice.
InitPending ==
    /\ InitSession /\ InitStore /\ InitClassify /\ InitResolve
    /\ jwt_lib = "fractional"
    /\ inbox = Inbox
    /\ budget = MaxStoredAgain

\* The requests that read, write or execute the pending action, and the
\* fetch that gives them a cache.
NextPending ==
    \/ \E r \in Slots : HandleReadEmails(r)
    \/ \E r \in Slots : FetchReturn(r)
    \/ \E r \in Slots : SummarizeReturn(r)
    \/ \E r \in Slots : HandleReply(r)
    \/ \E r \in Slots : GenerateReplyReturn(r)
    \/ \E r \in Slots : HandleDelete(r)
    \/ \E r \in Slots : HandleConfirm(r)
    \/ \E r \in Slots : SendReturn(r)
    \/ \E r \in Slots : TrashReturn(r)

SpecPending == InitPending /\ [][NextPending]_vars

-----------------------------------------------------------------------------
(* The specification of one client's requests to the Gmail API *)

NextRequest == MakeRequestCall \/ ClientRequest \/ BackoffElapsed

\* client.request is given timeout=30.0 and asyncio.sleep a finite time, so
\* an attempt that is under way ends and a backoff that is under way elapses.
SpecRequest ==
    /\ Init
    /\ [][NextRequest]_vars
    /\ WF_vars(ClientRequest)
    /\ WF_vars(BackoffElapsed)

-----------------------------------------------------------------------------
(* Steps, as seen in the state *)

\* A request with this intent was handled in this step: answered at once (no
\* slot changes), or suspended at its first await.
Handled(intent) ==
    \/ req' = req /\ resp'.intent = intent
    \/ \E r \in Slots : /\ req[r].pc = "await_parse"
                        /\ req'[r].pc = "idle"
                        /\ resp'.intent = intent
    \/ \E r \in Slots : /\ req[r].pc \in {"idle", "await_parse"}
                        /\ req'[r].pc \notin {"idle", "await_parse"}
                        /\ req'[r].intent = intent

\* The request in slot r, suspended at pc, resumed in this step.
Resumed(r, pc) == req[r].pc = pc /\ req'[r].pc # pc

\* The send and delete collaborators were not invoked in this step.
NoCollaboratorCall == sent' = sent /\ deleted' = deleted

\* The send_email call that executes a send payload.
CallOf(data) ==
    [to |-> data.email.sender_email, body |-> data.reply_body,
     reply_to_id |-> data.email_id]

-----------------------------------------------------------------------------
(* C1 *)

\* C1: every invocation of the send (resp. delete) collaborator is made by a
\* request classified CONFIRM, for a payload that a REPLY (resp. DELETE)
\* request stored before, for that same target, answering with a draft
\* (resp. confirmation) response; no other intent invokes them.
C1_SendDeleteOnlyAfterConfirm ==
    /\ \A i \in DOMAIN sent :
          /\ sent[i].intent = "CONFIRM"
          /\ sent[i].src \in DOMAIN stored
          /\ LET s == stored[sent[i].src]
             IN  /\ s.intent = "REPLY" /\ s.kind = "send" /\ s.type = "draft"
                 /\ sent[i].call.reply_to_id = s.data.email_id
    /\ \A i \in DOMAIN deleted :
          /\ deleted[i].intent = "CONFIRM"
          /\ deleted[i].src \in DOMAIN stored
          /\ LET s == stored[deleted[i].src]
             IN  /\ s.intent = "DELETE" /\ s.kind = "delete" /\ s.type = "confirmation"
                 /\ deleted[i].email_id = s.data.email_id

\* A reply was sent.
C1_Witness == Len(sent) = 1 /\ sent[1].call.reply_to_id \in MsgIds

-----------------------------------------------------------------------------
(* C2 *)

\* C2 as stated: every REPLY whose reference resolved leaves the session in
\* AwaitingConfirmation{send}, ready for the CONFIRM.
C2_Original ==
    [][(resp'.intent = "REPLY" /\ resp'.msg \notin {"which_email", "not_found"})
         => pending_action' = "send"]_vars

\* C2, amended: a REPLY whose reference resolved and whose reply body is
\* given, or generated without error, leaves the session in
\* AwaitingConfirmation{send}; when the generation fails the session is left
\* as it was. A CONFIRM handled in AwaitingConfirmation{send} clears both
\* pending fields and invokes the send collaborator, in that step and never
\* again for that payload, with the target id, recipient and reply body of
\* the stored payload.
C2_ReplyConfirmRoundTrip ==
    /\ [][(resp'.intent = "REPLY" /\ resp'.msg \notin {"which_email", "not_found"})
            => \/ resp'.type = "draft" /\ pending_action' = "send"
                                       /\ pending_data' # NoneData
               \/ resp'.msg = "couldnt_generate"
                    /\ UNCHANGED <<pending_action, pending_data>>]_vars
    /\ [][(Handled("CONFIRM") /\ pending_action = "send")
            => /\ pending_action' = None
               /\ pending_data' = NoneData
               /\ deleted' = deleted
               /\ sent' = Append(sent, [call |-> CallOf(pending_data),
                                        src |-> pending_src, intent |-> "CONFIRM"])]_vars
    /\ [](\A i, j \in DOMAIN sent : sent[i].src = sent[j].src => i = j)
    /\ [](\A i \in DOMAIN sent : sent[i].call = CallOf(stored[sent[i].src].data))

\* The reply of a confirmed draft is on its way and the session is Idle again.
C2_Witness ==
    /\ pending_action = None
    /\ Len(sent) = 1
    /\ \E r \in Slots : req[r].pc = "await_send" /\ req[r].src = sent[1].src

-----------------------------------------------------------------------------
(* C3 *)

\* C3: a CANCEL handled in AwaitingConfirmation clears both pending fields,
\* invokes no collaborator, and returns a cancellation text; the payload it
\* discarded is never executed, neither then nor by a later CONFIRM.
C3_CancelDiscards ==
    /\ [][(Handled("CANCEL") /\ pending_action # None)
            => /\ pending_action' = None
               /\ pending_data' = NoneData
               /\ NoCollaboratorCall
               /\ resp'.type = "text"
               /\ resp'.msg = (IF pending_action = "send" THEN "reply_cancelled"
                               ELSE "delete_cancelled")]_vars
    /\ [](\A i \in DOMAIN sent : sent[i].src \notin cancelled)
    /\ [](\A i \in DOMAIN deleted : deleted[i].src \notin cancelled)

\* A payload was cancelled, and a CONFIRM after that found nothing pending.
C3_Witness ==
    /\ cancelled # {}
    /\ resp.msg = "nothing_to_confirm"
    /\ sent = <<>> /\ deleted = <<>>

-----------------------------------------------------------------------------
(* C4 *)

\* C4: in every state of the session, whichever requests are in flight,
\* pending_action is none exactly when pending_data is none.
C4_PendingFieldsTogether == (pending_action = None) <=> (pending_data = NoneData)

\* A payload is pending while another request of the session is suspended.
C4_Witness ==
    /\ pending_action = "delete"
    /\ pending_data # NoneData
    /\ \E r \in Slots : req[r].pc = "await_fetch"

-----------------------------------------------------------------------------
(* C5 *)

\* C5 as stated: while the send or delete collaborator call of a CONFIRM is
\* in flight, the session still holds the pending action and its payload.
C5_Original ==
    \A r \in Slots :
        req[r].pc \in {"await_send", "await_trash"}
            => pending_action # None /\ pending_data # NoneData

\* C5, amended: on CONFIRM in AwaitingConfirmation the two pending fields are
\* cleared first, in the step that reads the payload and calls the
\* collaborator with the copy it read; while the call is in flight the session
\* no longer holds that payload, and the return of the call leaves the
\* pending fields alone.
C5_ClearedBeforeCall ==
    /\ [][(Handled("CONFIRM") /\ pending_action \in {"send", "delete"})
            => /\ pending_action' = None
               /\ pending_data' = NoneData
               /\ Len(sent') + Len(deleted') = Len(sent) + Len(deleted) + 1
               /\ \E r \in Slots : req'[r].pc \in {"await_send", "await_trash"}
                                     /\ req'[r].email = pending_data.email]_vars
    /\ [](\A r \in Slots : req[r].pc \in {"await_send", "await_trash"}
                              => pending_src # req[r].src)
    /\ [][\A r \in Slots : (Resumed(r, "await_send") \/ Resumed(r, "await_trash"))
                              => UNCHANGED <<pending_action, pending_data>>]_vars

\* A delete is in flight and the session is Idle.
C5_Witness ==
    /\ pending_action = None /\ pending_data = NoneData
    /\ \E r \in Slots : req[r].pc = "await_trash" /\ req[r].src = 1

-----------------------------------------------------------------------------
(* C6 *)

\* C6: a CONFIRM or CANCEL handled while pending_action is none answers with
\* the "nothing pending" text, invokes no collaborator, suspends nowhere, and
\* leaves the pending fields, the cache and the rest of the session and of
\* the store unchanged (so that repeating it finds the same state).
C6_NothingPending ==
    [][((Handled("CONFIRM") \/ Handled("CANCEL")) /\ pending_action = None)
         => /\ resp'.type = "text"
            /\ resp'.msg = (IF resp'.intent = "CONFIRM" THEN "nothing_to_confirm"
                            ELSE "nothing_to_cancel")
            /\ resp'.pending_action = None
            /\ NoCollaboratorCall
            /\ \A r \in Slots : req'[r] = req[r] \/ req'[r] = IdleReq
            /\ UNCHANGED <<emails_cache, pending_action, pending_data, pending_src,
                           trashed, stored, cancelled, storeVars, classifyVars, resolveVars, envVars>>]_vars

\* CANCEL found nothing pending, with emails in the cache.
C6_Witness ==
    /\ resp.intent = "CANCEL" /\ resp.msg = "nothing_to_cancel"
    /\ emails_cache # <<>>
    /\ pending_action = None

-----------------------------------------------------------------------------
(* C7 *)

OtherIntents == {"READ_EMAILS", "CATEGORIZE", "DIGEST", "HELP", "GREETING", "UNKNOWN"}

\* A request of one of the other intents took a step: it was handled, or it
\* resumed from an await.
OtherStep ==
    \/ \E intent \in OtherIntents : Handled(intent)
    \/ \E r \in Slots : req[r].intent \in OtherIntents /\ req'[r] # req[r]

\* C7: every step of a READ_EMAILS, CATEGORIZE, DIGEST, HELP, GREETING or
\* UNKNOWN request leaves pending_action and pending_data as they were, and
\* in AwaitingConfirmation each of these handlers can be entered by an idle
\* request: the pending action does not block them.
C7_OtherIntentsKeepPending ==
    /\ [][OtherStep => UNCHANGED <<pending_action, pending_data>>]_vars
    /\ [](\A r \in Slots :
            (req[r].pc = "idle" /\ pending_action # None)
               => /\ ENABLED HandleReadEmails(r)
                  /\ ENABLED HandleCategorize(r)
                  /\ ENABLED HandleDigest(r)
                  /\ ENABLED HandleHelp(r)
                  /\ ENABLED HandleGreeting(r)
                  /\ ENABLED HandleUnknown(r))

\* "Show my emails" was answered with the emails while a draft is pending.
C7_Witness ==
    /\ resp.intent = "READ_EMAILS" /\ resp.type = "emails"
    /\ pending_action = "send" /\ pending_data # NoneData

-----------------------------------------------------------------------------
(* C8 *)

\* The reference is absent, or is a number with no cached email at that place.
Unresolvable(email_ref) == email_ref = NoRef \/ email_ref \notin DOMAIN emails_cache

\* C8: a REPLY or DELETE whose reference is absent or does not resolve answers
\* with a clarification text, stores nothing, invokes no collaborator and
\* leaves the pending fields and the cache as they were, in Idle and in
\* AwaitingConfirmation alike.
C8_UnresolvedChangesNothing ==
    [][(resp'.intent \in {"REPLY", "DELETE"})
         => \A r \in Slots, email_ref \in Refs :
              (/\ req[r].pc = "idle"
               /\ Unresolvable(email_ref)
               /\ \/ HandleReply(r) /\ \E c \in ReplyContents : ReplyWith(r, email_ref, c)
                  \/ HandleDelete(r) /\ DeleteWith(r, email_ref))
                => /\ resp'.type = "text"
                   /\ resp'.msg = (IF email_ref = NoRef THEN "which_email"
                                   ELSE "not_found")
                   /\ resp'.pending_action = None
                   /\ NoCollaboratorCall
                   /\ UNCHANGED <<emails_cache, pending_action, pending_data,
                                  pending_src, trashed, req, stored>>]_vars

\* A DELETE of an email that is not in the cache was answered while a draft is
\* pending.
C8_Witness ==
    /\ resp.intent = "DELETE" /\ resp.msg = "not_found"
    /\ pending_action = "send"
    /\ emails_cache # <<>>

-----------------------------------------------------------------------------
(* C9 *)

\* C9 as stated: a REPLY that resolved its reference (and so went on to
\* generate the reply) ends in AwaitingConfirmation{send} with a draft.
C9_Original ==
    [][\A r \in Slots :
          Resumed(r, "await_generate_reply")
            => pending_action' = "send" /\ resp'.type = "draft"]_vars

\* The response and the session after a payload was stored for this email.
StoredFor(kind, type, email) ==
    /\ pending_action' = kind
    /\ pending_data'.email_id = email.id
    /\ pending_data'.email = email
    /\ resp'.type = type
    /\ resp'.pending_action = kind

\* C9, amended: a REPLY that resolves its reference and has a reply body
\* (given, or generated without error), resp. a DELETE that resolves its
\* reference, ends in AwaitingConfirmation with kind send, resp. delete, a
\* payload naming the resolved email, and a response of type draft, resp.
\* confirmation, whose pending_action is the kind stored; a REPLY whose body
\* cannot be generated gets an error response and stores nothing; a response
\* carries a pending_action only when its request stored that kind.
C9_ResolvedStoresPending ==
    /\ [][(resp'.intent \in {"REPLY", "DELETE"})
            => \A r \in Slots, email_ref \in DOMAIN emails_cache :
                 /\ (req[r].pc = "idle" /\ HandleReply(r)
                       /\ ReplyWith(r, email_ref, "explicit"))
                      => /\ StoredFor("send", "draft", emails_cache[email_ref])
                         /\ pending_data'.reply_body = "explicit"
                 /\ (req[r].pc = "idle" /\ HandleDelete(r) /\ DeleteWith(r, email_ref))
                      => StoredFor("delete", "confirmation",
                                   emails_cache[email_ref])]_vars
    /\ [][\A r \in Slots :
            Resumed(r, "await_generate_reply")
              => \/ /\ StoredFor("send", "draft", req[r].email)
                    /\ pending_data'.reply_body = GeneratedReply
                 \/ /\ resp'.type = "error"
                    /\ resp'.pending_action = None
                    /\ UNCHANGED <<pending_action, pending_data>>]_vars
    /\ [](resp.pending_action # None
            => /\ resp.pending_action = pending_action
               /\ resp.intent = (IF pending_action = "send" THEN "REPLY" ELSE "DELETE")
               /\ resp.type = (IF pending_action = "send" THEN "draft"
                               ELSE "confirmation"))

\* A generated draft was stored for the second email of the cache.
C9_Witness ==
    /\ resp.type = "draft" /\ resp.pending_action = "send"
    /\ pending_data # NoneData
    /\ pending_data.reply_body = GeneratedReply
    /\ pending_data.email.index = 2

-----------------------------------------------------------------------------
(* C10 *)

\* The session of this token is in the store and its session_expiry has passed.
ExpiredInStore(token) ==
    /\ token.session_id \in DOMAIN sessions
    /\ now > sessions[token.session_id].session_expiry

\* C10 as stated: a get with the token of a session whose session_expiry has
\* passed returns none and removes the record from the store.
C10_Original ==
    [][\A token \in tokens :
          (ExpiredInStore(token) /\ GetSession(token))
            => /\ last'.result = None
               /\ token.session_id \notin DOMAIN sessions']_vars

\* A get with the token of an expired session returned none and the record is
\* still in the store.
C10_Witness ==
    /\ last.op = "get" /\ last.result = None
    /\ last.session_id \in DOMAIN sessions
    /\ now > sessions[last.session_id].session_expiry

-----------------------------------------------------------------------------
(* Steps of the accesses, as seen in the state *)

\* The access in slot a, suspended on this path, resumed in this step.
ReturnStep(a, path) ==
    /\ access[a].pc = "await_refresh"
    /\ access[a].path = path
    /\ access'[a].pc = "idle"

\* The outcome of the refresh call the access in slot a was waiting for.
OutcomeOf(a) == refreshes'[access[a].new_token - InitialAccessToken].outcome

\* The access in slot a, idle before, went through get_current_session.
CurrentStep(a) == access[a].pc = "idle" /\ GetCurrentSession(a)

-----------------------------------------------------------------------------
(* C11 *)

\* C11 as stated: an access through get_current_session invokes the refresh
\* collaborator once if now + 5 minutes > access_token_expiry and not at all
\* otherwise; when the refresh succeeds the request is handed the new token,
\* and the stored access_token and access_token_expiry are both updated.
C11_Original ==
    /\ [][\A a \in AccessSlots :
            CurrentStep(a)
              => /\ Len(refreshes') - Len(refreshes)
                      = (IF access'[a].pc = "await_refresh" THEN 1 ELSE 0)
                 /\ access'[a].pc = "await_refresh"
                      => IsTokenExpired(sessions[access'[a].token.session_id])
                 /\ last'.result = "session"
                      => ~IsTokenExpired(sessions[last'.session_id])]_vars
    /\ [][\A a \in AccessSlots :
            (ReturnStep(a, "current") /\ OutcomeOf(a) = "ok")
              => LET session_id == access[a].token.session_id
                 IN  /\ Len(refreshes') = Len(refreshes)
                     /\ last'.result = "session"
                     /\ last'.access_token = access[a].new_token
                     /\ session_id \in DOMAIN sessions'
                          => /\ sessions'[session_id].access_token = access[a].new_token
                             /\ \E expires_in \in ExpiresIn :
                                  sessions'[session_id].token_expiry
                                     = now + expires_in * TicksPerSecond]_vars

\* A request was handed a refreshed access token, and the stored
\* access_token_expiry of its session is still the one that was due.
C11_Witness ==
    /\ last.op = "current" /\ last.result = "session"
    /\ last.access_token > InitialAccessToken
    /\ last.session_id \in DOMAIN sessions
    /\ sessions[last.session_id].access_token = last.access_token
    /\ sessions[last.session_id].token_expiry < now + RefreshBuffer

-----------------------------------------------------------------------------
(* C12 *)

\* C12: on the get_current_session path, a refresh that fails with revoked
\* consent deletes the session from the store and answers PERMISSION_REVOKED;
\* a refresh that fails otherwise answers TOKEN_REFRESH_FAILED and leaves the
\* store, the pending fields and the cache as they were.
C12_RefreshFailures ==
    [][\A a \in AccessSlots :
          ReturnStep(a, "current")
            => /\ OutcomeOf(a) = "revoked"
                    => /\ access[a].token.session_id \notin DOMAIN sessions'
                       /\ last'.result = "PERMISSION_REVOKED"
               /\ OutcomeOf(a) = "error"
                    => /\ last'.result = "TOKEN_REFRESH_FAILED"
                       /\ sessions' = sessions
                       /\ UNCHANGED <<pending_action, pending_data, emails_cache>>
               /\ last'.result = "PERMISSION_REVOKED" => OutcomeOf(a) = "revoked"
               /\ last'.result = "TOKEN_REFRESH_FAILED" => OutcomeOf(a) = "error"]_vars

\* A refresh failed for another reason than revoked consent, and the session
\* is in the store.
C12_Witness ==
    /\ last.op = "current" /\ last.result = "TOKEN_REFRESH_FAILED"
    /\ last.session_id \in DOMAIN sessions
    /\ \E k \in DOMAIN refreshes : refreshes[k].outcome = "revoked"

-----------------------------------------------------------------------------
(* C13 *)

\* C13 as stated: whenever the refresh collaborator reports revoked consent,
\* on the get_current_session path or in AuthService.refresh_session, the
\* session is deleted from the store.
C13_Original ==
    [][\A a \in AccessSlots :
          ((ReturnStep(a, "current") \/ ReturnStep(a, "refresh"))
              /\ OutcomeOf(a) = "revoked")
            => access[a].token.session_id \notin DOMAIN sessions']_vars

\* AuthService.refresh_session was told that consent is revoked, the route
\* answered 401, and the session is in the store.
C13_Witness ==
    /\ last.op = "refresh" /\ last.result = "401"
    /\ last.session_id \in DOMAIN sessions
    /\ \E k \in DOMAIN refreshes :
          /\ refreshes[k].path = "refresh"
          /\ refreshes[k].outcome = "revoked"
          /\ refreshes[k].session_id = last.session_id

-----------------------------------------------------------------------------
(* C14 *)

\* A refresh for this session returned successfully in this step.
RefreshedOk(session_id) ==
    \E a \in AccessSlots :
        /\ ReturnStep(a, "current") \/ ReturnStep(a, "refresh")
        /\ OutcomeOf(a) = "ok"
        /\ access[a].token.session_id = session_id

\* C14: the session_expiry of a record is the one create_session gave it and
\* no step changes it; the token_expiry of a record changes only in a step in
\* which a refresh for that session returns successfully.
C14_ExpiryFixed ==
    /\ [][\A id \in DOMAIN sessions \cap DOMAIN sessions' :
            /\ sessions'[id].session_expiry = sessions[id].session_expiry
            /\ sessions'[id].token_expiry # sessions[id].token_expiry
                 => RefreshedOk(id)]_vars
    /\ [](\A id \in DOMAIN sessions :
            sessions[id].session_expiry = sessions[id].created_at + SessionLifetime)

\* A session has a refreshed token with a new expiry, some time after its
\* creation.
C14_Witness ==
    \E id \in DOMAIN sessions :
        /\ sessions[id].access_token > InitialAccessToken
        /\ sessions[id].token_expiry > now
        /\ now > sessions[id].created_at

-----------------------------------------------------------------------------
(* C15 *)

\* The token's exp has passed, for either build of the jwt library.
Lapsed(token) == token.signed /\ token.exp < NumericDate(now)

\* The token fails the signature check or the expiry check.
Unverified(token) == ~token.signed \/ Lapsed(token)

\* C15 as stated: a get, an update or a delete with a token that fails the
\* signature check or the expiry check reads, changes and removes nothing.
C15_Original ==
    [][\A token \in Presented :
          (Unverified(token) /\ (GetSession(token) \/ DeleteSession(token)))
            => sessions' = sessions /\ last'.result \in {None, "false"}]_vars

\* C15, amended: get and update (get_session, update_session and the accesses
\* built on them) verify signature and expiry: with a token that fails either
\* they hand out no session and write nothing. delete_session verifies the
\* signature only: a forged token removes nothing, a validly signed token
\* whose exp has passed still removes its record.
C15_TokenVerifiedExceptDelete ==
    /\ [][\A token \in Presented :
            (Unverified(token) /\ GetSession(token))
              => sessions' = sessions /\ last'.result = None]_vars
    /\ [][\A a \in AccessSlots, token \in Presented :
            (/\ Unverified(token)
             /\ access[a].pc = "idle"
             /\ GetCurrentSession(a) \/ RefreshSession(a)
             /\ last'.session_id = token.session_id)
              => /\ sessions' = sessions
                 /\ access' = access
                 /\ last'.result \in {"SESSION_EXPIRED", "401"}]_vars
    /\ [][\A a \in AccessSlots :
            ((ReturnStep(a, "current") \/ ReturnStep(a, "refresh"))
                /\ Unverified(access[a].token) /\ OutcomeOf(a) = "ok")
              => /\ DOMAIN sessions' = DOMAIN sessions
                 /\ \A id \in DOMAIN sessions :
                       sessions'[id].token_expiry = sessions[id].token_expiry
                 /\ ReturnStep(a, "refresh") => sessions' = sessions]_vars
    /\ [][\A token \in Presented :
            DeleteSession(token)
              => /\ ~token.signed => sessions' = sessions /\ last'.result = "false"
                 /\ (Lapsed(token) /\ token.session_id \in DOMAIN sessions)
                      => /\ sessions' = Without(token.session_id)
                         /\ last'.result = "true"]_vars

\* A delete with a token whose exp has passed removed the record.
C15_Witness ==
    /\ last.op = "delete" /\ last.result = "true"
    /\ last.session_id \notin DOMAIN sessions
    /\ \E token \in tokens : token.session_id = last.session_id /\ Lapsed(token)

-----------------------------------------------------------------------------
(* C16 *)

\* The session ids create_session has issued.
Issued == {token.session_id : token \in tokens}

\* C16: a session that was deleted never is in the store again, whatever
\* finishes later; a get with its token returns none, an access with it is
\* refused, and an update for it (at the return of a refresh that was in
\* flight) writes nothing.
C16_DeletedStaysDeleted ==
    /\ [](DOMAIN sessions \subseteq Issued)
    /\ [][\A id \in Issued : id \notin DOMAIN sessions => id \notin DOMAIN sessions']_vars
    /\ [][\A token \in tokens :
            (token.session_id \notin DOMAIN sessions /\ GetSession(token))
              => last'.result = None /\ sessions' = sessions]_vars
    /\ [][\A a \in AccessSlots :
            (/\ access[a].pc = "idle"
             /\ GetCurrentSession(a) \/ RefreshSession(a)
             /\ last'.session_id \in Issued \ DOMAIN sessions)
              => /\ last'.result \in {"SESSION_EXPIRED", "401"}
                 /\ access' = access
                 /\ sessions' = sessions]_vars
    /\ [][\A a \in AccessSlots :
            ((ReturnStep(a, "current") \/ ReturnStep(a, "refresh"))
                /\ access[a].token.session_id \notin DOMAIN sessions)
              => sessions' = sessions]_vars

\* A request that was refreshing its token when the session was logged out
\* finished with the new token; the session's JWT has not expired, and the
\* session is not in the store.
C16_Witness ==
    /\ last.op = "current" /\ last.result = "session"
    /\ last.session_id \in Issued \ DOMAIN sessions
    /\ \E token \in tokens :
          token.session_id = last.session_id /\ token.exp * TicksPerSecond > now

-----------------------------------------------------------------------------
(* C17 *)

\* The message of the call has a match in the pattern group of the intent.
Matched(intent) == parse.pc # "idle" /\ Matches(intent, parse.message)

\* C17: with has_pending_action true, every message that matches a CONFIRM
\* or a CANCEL pattern is classified CONFIRM or CANCEL, also when it matches
\* a pattern of an intent listed earlier in the table.
C17_Original ==
    (/\ parse.pc = "done"
     /\ parse.has_pending_action
     /\ Matched("CONFIRM") \/ Matched("CANCEL"))
      => parse.result.intent \in {"CONFIRM", "CANCEL"}

\* With an action pending, a message that matches a CANCEL pattern and a
\* DELETE pattern was classified.
C17_Witness ==
    /\ parse.pc = "done"
    /\ parse.has_pending_action
    /\ Matched("CANCEL") /\ Matched("DELETE")
    /\ ~parse.ai_called

-----------------------------------------------------------------------------
(* C18 *)

\* The positions, in the order of the table, of the intents the message
\* matches.
Hits(order) == {i \in DOMAIN order : Matched(order[i])}

-----------------------------------------------------------------------------
(* C19 *)

\* The message of the call matches a pattern of the table.
MatchedAny == \E i \in DOMAIN IntentPatterns : Matched(IntentPatterns[i])

-----------------------------------------------------------------------------
(* C20 *)

\* parse_message returned after the fallback was called.
FallbackDone == parse.pc = "done" /\ parse.ai_called

\* C20: parse_message returns a ParsedIntent for every message and every
\* reply of the fallback. When the fallback fails (AIError, text that is not
\* JSON, JSON that is not an object) the result is the rule result if there is
\* one, else UNKNOWN with confidence 0; an intent string that is no member of
\* Intent gives UNKNOWN.
C20_NeverRaises ==
    /\ parse.pc = "done" =>
          /\ parse.result.intent \in Intents
          /\ parse.result.confidence \in 0..100
          /\ parse.result.requires_confirmation \in BOOLEAN
    /\ parse.pc = "await_ai" => ENABLED AiReturn
    /\ (FallbackDone /\ parse.reply.kind \in {"AIError", "not_json", "not_object"}) =>
          parse.result = IF parse.rule_result # NoParse THEN parse.rule_result
                         ELSE [intent |-> "UNKNOWN", confidence |-> 0,
                               requires_confirmation |-> FALSE]
    /\ (FallbackDone /\ parse.reply.kind = "object"
                     /\ parse.reply.intent \notin Intents) =>
          parse.result.intent = "UNKNOWN"

\* The fallback failed with an error for a message that matches no pattern.
C20_Witness ==
    /\ FallbackDone
    /\ parse.reply.kind = "AIError"
    /\ ~MatchedAny
    /\ parse.result.intent = "UNKNOWN" /\ parse.result.confidence = 0

-----------------------------------------------------------------------------
(* C21 *)

\* process_message goes on from the result of parse_message in this step.
AfterParse == parse.pc = "done" /\ parse'.pc # "done"

-----------------------------------------------------------------------------
(* C22 *)

\* What a collaborator call inside a handler fails with: the transport is
\* unavailable, the target is gone, reply generation is unavailable, or
\* anything else is raised.
HandlerFailures == GmailFailures \cup {"not_found"}

\* The request in slot r came to its end in this step.
Ended(r) == req[r].pc # "idle" /\ req'[r].pc = "idle"

\* A failure raised inside a handler comes back as a response of type error,
\* and the slot of the request is free for the next message.
C22_HandlerFailuresCaught ==
    [][\A r \in Slots :
         (Ended(r) /\ req[r].pc # "await_parse") =>
            /\ resp'.type # "raised"
            /\ req'[r] = IdleReq
            /\ (\/ resp'.cause \in HandlerFailures
                \/ req[r].pc = "await_generate_reply" /\ resp'.cause = "AIError")
                  => resp'.type = "error"]_vars

\* C22: process_message raises nothing to its caller: every request that ends
\* ends with a response, of type error when a collaborator failed inside the
\* handler, and its slot is free for the next message.
C22_Original ==
    [][\A r \in Slots :
         Ended(r) =>
            /\ resp'.type # "raised"
            /\ req'[r] = IdleReq
            /\ (\/ resp'.cause \in HandlerFailures
                \/ req[r].pc = "await_generate_reply" /\ resp'.cause = "AIError")
                  => resp'.type = "error"]_vars

\* The TypeError of the guard left process_message.
C22_Witness == resp.type = "raised" /\ resp.cause = "TypeError"

-----------------------------------------------------------------------------
(* C23 *)

\* The reference as the strategies see it.
Lowered == Strip(Lower(resolve.reference))

\* The N of a numeric index reference (#N, email N, number N, bare N), or -1
\* for any other text.
IndexNumber(text) ==
    LET prefixes == {<<"#">>, <<"e", "m", "a", "i", "l", " ">>,
                     <<"n", "u", "m", "b", "e", "r", " ">>, <<>>}
        rest(prefix) == SubSeq(text, Len(prefix) + 1, Len(text))
        forms == {prefix \in prefixes :
                     /\ OccursAt(text, prefix, 1)
                     /\ SearchOnlyDigits(rest(prefix)) # NoMatch}
    IN  IF forms = {} THEN -1 ELSE ToInt(rest(CHOOSE prefix \in forms : TRUE))

\* C23: a numeric index reference N resolves to the N-th email of the cache
\* when N is in 1..len(cache) and to none when it is not, whatever the
\* emails hold; with an empty cache every reference resolves to none.
C23_Original ==
    resolve.returned =>
        /\ resolve.cache = <<>> => resolve.result = NoEmail
        /\ IndexNumber(Lowered) # -1 =>
              resolve.result =
                 IF IndexNumber(Lowered) \in 1..Len(resolve.cache)
                 THEN resolve.cache[IndexNumber(Lowered)]
                 ELSE NoEmail

\* "email 9" against a cache of four emails resolved to the fourth, whose
\* subject holds the word "email".
C23_Witness ==
    /\ resolve.returned
    /\ resolve.reference = <<"e", "m", "a", "i", "l", " ", "9">>
    /\ resolve.cache = ThreeSenders
    /\ resolve.result = ThreeSenders[4]

\* The part of C23 that holds: an index in range resolves to the email at
\* that position, and nothing resolves against an empty cache.
C23_InRangeAndEmpty ==
    resolve.returned =>
        /\ resolve.cache = <<>> => resolve.result = NoEmail
        /\ IndexNumber(Lowered) \in 1..Len(resolve.cache) =>
              resolve.result = resolve.cache[IndexNumber(Lowered)]

-----------------------------------------------------------------------------
(* C24 *)

\* The words of the phrase stand, in a row, among the words of the text.
HasPhrase(text, phrase) ==
    /\ phrase # <<>>
    /\ Contains(<<" ">> \o Lower(text) \o <<" ">>, <<" ">> \o phrase \o <<" ">>)

\* C24: a reference that is the full sender_name of a cached email resolves
\* to an email whose sender_name holds the whole reference, and a reference
\* that is a phrase of a cached subject to an email whose subject holds it.
C24_Original ==
    (resolve.returned /\ IndexNumber(Lowered) = -1) =>
        /\ (\E e \in DOMAIN resolve.cache :
               Lower(resolve.cache[e].sender_name) = Lowered)
             => /\ resolve.result # NoEmail
                /\ Contains(Lower(resolve.result.sender_name), Lowered)
        /\ (/\ \E e \in DOMAIN resolve.cache :
                  HasPhrase(resolve.cache[e].subject, Lowered)
            /\ \A e \in DOMAIN resolve.cache :
                  ~Contains(SenderCombined(resolve.cache[e]), Lowered))
             => /\ resolve.result # NoEmail
                /\ Contains(Lower(resolve.result.subject), Lowered)

\* "Sender 2" against the cache of the tests resolved to the email of
\* "Sender 1".
C24_Witness ==
    /\ resolve.returned
    /\ resolve.reference = <<"S", "e", "n", "d", "e", "r", " ", "2">>
    /\ resolve.cache = MockEmails
    /\ resolve.result = MockEmails[1]

-----------------------------------------------------------------------------
(* C25 *)

\* The first email of the cache, in its order, whose sender holds the name:
\* the email is that one.
FirstOfSender(email, name, cache) ==
    \E e \in DOMAIN cache :
        /\ cache[e] = email
        /\ \/ Contains(Lower(cache[e].sender_name), name)
           \/ Contains(Lower(cache[e].sender_email), name)
        /\ \A j \in 1..(e - 1) :
              /\ ~Contains(Lower(cache[j].sender_name), name)
              /\ ~Contains(Lower(cache[j].sender_email), name)

\* C25: resolve_email_reference gives what the index strategy finds, else
\* what the sender strategy finds, else what the subject strategy finds (the
\* same for the same reference and cache); a name the "from" pattern takes
\* out of the reference resolves to the first email in cache order whose
\* sender holds it; and the call changes neither the cache nor the session.
C25_StrategyOrder ==
    /\ [](resolve.returned =>
            /\ resolve.result =
                  IF resolve.cache = <<>> THEN NoEmail
                  ELSE IF ResolveIndexText(Lowered, resolve.cache) # NoEmail
                  THEN ResolveIndexText(Lowered, resolve.cache)
                  ELSE IF ResolveSender(Lowered, resolve.cache) # NoEmail
                  THEN ResolveSender(Lowered, resolve.cache)
                  ELSE ResolveSubject(Lowered, resolve.cache)
            /\ LET name == SenderPatterns(Lowered)[1]
               IN  (/\ resolve.cache # <<>>
                    /\ ResolveIndexText(Lowered, resolve.cache) = NoEmail
                    /\ name # NoMatch
                    /\ \E e \in DOMAIN resolve.cache :
                          Contains(SenderCombined(resolve.cache[e]), name))
                     => FirstOfSender(resolve.result, name, resolve.cache))
    /\ [][/\ resolve'.reference = resolve.reference
          /\ resolve'.cache = resolve.cache
          /\ UNCHANGED chatVars]_vars

\* "from alice" resolved to the first email from alice, the second of the
\* cache, although the subject of the first holds "alice" too.
C25_Witness ==
    /\ resolve.returned
    /\ resolve.reference = <<"f", "r", "o", "m", " ", "a", "l", "i", "c", "e">>
    /\ resolve.cache = ThreeSenders
    /\ resolve.result = ThreeSenders[2]
    /\ ResolveSubject(Lowered, ThreeSenders) = ThreeSenders[1]

-----------------------------------------------------------------------------
(* C26 *)

\* The fetch of the request in slot r returned its result in this step.
Fetched(r) == Resumed(r, "await_fetch") /\ resp'.cause \notin GmailFailures

\* C26: after every fetch that succeeds (of READ_EMAILS, or the automatic one
\* of CATEGORIZE and DIGEST) the cache is the fetch result in its order, the
\* email at position i has index i, and nothing of the cache before is left,
\* also when nothing was fetched.
C26_CacheIsLastFetch ==
    [][\A r \in Slots :
         Fetched(r) =>
            /\ Len(emails_cache') = Len(req[r].fetched)
            /\ \A i \in 1..Len(emails_cache') :
                  /\ emails_cache'[i].id = req[r].fetched[i].id
                  /\ emails_cache'[i].index = i]_vars

\* A search that found nothing emptied the cache that a delete had been
\* confirmed from before.
C26_Witness ==
    /\ resp.intent = "READ_EMAILS" /\ resp.msg = "no_emails"
    /\ emails_cache = <<>>
    /\ Len(deleted) = 1 /\ Cardinality(trashed) = 1

-----------------------------------------------------------------------------
(* C27 *)

\* The delete of the request in slot r succeeded in this step.
Trashed(r) == Resumed(r, "await_trash") /\ resp'.msg = "deleted"

\* C27: a confirmed delete that succeeds takes out of the cache the emails
\* with the deleted id and no other; the others stay as they are, index
\* included, in their order.
C27_DeleteKeepsIndices ==
    [][\A r \in Slots :
         Trashed(r) =>
            LET kept == {i \in DOMAIN emails_cache :
                            emails_cache[i].id # req[r].email.id}
                nth(i) == CHOOSE k \in kept : Cardinality({j \in kept : j <= k}) = i
            IN  /\ Len(emails_cache') = Cardinality(kept)
                /\ \A i \in 1..Len(emails_cache') :
                      emails_cache'[i] = emails_cache[nth(i)]]_vars

\* The first email was deleted: the second is now first in the cache, with
\* index 2.
C27_Witness ==
    /\ resp.intent = "CONFIRM" /\ resp.msg = "deleted"
    /\ Len(emails_cache) = 1
    /\ emails_cache[1].index = 2

-----------------------------------------------------------------------------
(* C28 *)

\* The request in slot r read has_pending before its parse, and another
\* request has written or cleared the pending fields since.
StaleCopy(r) ==
    /\ req[r].pc = "await_parse"
    /\ req[r].has_pending # (pending_action # None)

\* The handler of this intent ran for the request in slot r in this step.
Ran(r, intent) ==
    /\ req'[r].pc # req[r].pc
    /\ \/ req'[r].intent = intent
       \/ req'[r].pc = "idle" /\ resp'.intent = intent

\* C28: CONFIRM and CANCEL act on the pending fields as the session holds
\* them when the handler runs, not on what the request read before its
\* parse: what another request stored meanwhile is executed or cancelled,
\* and what another request cleared meanwhile is not.
C28_ConfirmReadsStore ==
    [][\A r \in Slots :
         /\ (StaleCopy(r) /\ Ran(r, "CONFIRM")) =>
               IF pending_action = None
               THEN /\ resp'.msg = "nothing_to_confirm"
                    /\ UNCHANGED <<sent, deleted, pending_action, pending_data>>
               ELSE /\ req'[r].pc = (IF pending_action = "send" THEN "await_send"
                                     ELSE "await_trash")
                    /\ req'[r].src = pending_src
                    /\ req'[r].email = pending_data.email
                    /\ pending_action' = None /\ pending_data' = NoneData
         /\ (StaleCopy(r) /\ Ran(r, "CANCEL")) =>
               IF pending_action = None
               THEN /\ resp'.msg = "nothing_to_cancel"
                    /\ UNCHANGED <<pending_action, pending_data, cancelled>>
               ELSE /\ resp'.msg = (IF pending_action = "send" THEN "reply_cancelled"
                                    ELSE "delete_cancelled")
                    /\ pending_src \in cancelled'
                    /\ pending_action' = None /\ pending_data' = NoneData]_vars

\* A CONFIRM whose request had read "nothing pending" before its parse is
\* executing the action another request stored meanwhile.
C28_Witness ==
    \E r \in Slots : /\ req[r].pc \in {"await_send", "await_trash"}
                     /\ ~req[r].has_pending

-----------------------------------------------------------------------------
(* C29 *)

\* What Gmail gives for a count and a query: the first count messages of the
\* inbox, in its order, that are not in the trash and that the query finds.
Found(count, query) ==
    LET ids == SelectQuery(SelectIn(inbox, trashed), query)
    IN  [i \in 1..(IF count < Len(ids) THEN count ELSE Len(ids)) |-> GmailEmail(ids[i])]

\* The fetch of READ_EMAILS is made with the count and the query of the
\* params, the count being 5 when the params have none.
FetchByParams(r) ==
    (Ran(r, "READ_EMAILS") /\ req[r].pc \in {"idle", "await_parse"}) =>
        /\ req'[r].pc = "await_fetch"
        /\ req'[r].fetched = Found(IF req'[r].count = NoCount THEN 5 ELSE req'[r].count,
                                   req'[r].query)

\* A failure of the summaries leaves the type of the response as it is and
\* puts the snippets in their place.
SummaryFailureKeepsType(r) ==
    Resumed(r, "await_summarize") =>
        /\ resp'.type = "emails"
        /\ Len(resp'.data) = Len(req[r].fetched)
        /\ \A i \in 1..Len(resp'.data) :
              /\ resp'.data[i].id = req[r].fetched[i].id
              /\ resp'.data[i].summary = (IF resp'.cause = "AIError" THEN "snippet"
                                          ELSE "ai")

\* C29, as the spec has it: a READ_EMAILS request whose fetch succeeds fetches
\* by the count and query of its params (5 when there is no count), replaces
\* the cache with the result and answers with type emails; a failure of the
\* summaries changes the summaries only.
C29_Original ==
    [][\A r \in Slots :
         /\ FetchByParams(r)
         /\ (Fetched(r) /\ req[r].intent = "READ_EMAILS") =>
               /\ emails_cache' = CacheOf(req[r].fetched)
               /\ req'[r].pc = "await_summarize"
         /\ SummaryFailureKeepsType(r)]_vars

\* C29, as the code has it: the same, but for a fetch that finds nothing: the
\* cache is emptied, no summaries are asked for and the answer is of type
\* text.
C29_ReadEmails ==
    [][\A r \in Slots :
         /\ FetchByParams(r)
         /\ (Fetched(r) /\ req[r].intent = "READ_EMAILS") =>
               /\ emails_cache' = CacheOf(req[r].fetched)
               /\ IF req[r].fetched # <<>>
                  THEN req'[r].pc = "await_summarize"
                  ELSE /\ req'[r] = IdleReq
                       /\ resp'.type = "text" /\ resp'.msg = "no_emails"
         /\ SummaryFailureKeepsType(r)]_vars

\* The summaries failed for a search that found one email: the answer is of
\* type emails, with the snippet.
C29_Witness ==
    /\ resp.intent = "READ_EMAILS" /\ resp.type = "emails"
    /\ resp.cause = "AIError"
    /\ Len(resp.data) = 1 /\ resp.data[1].id = 1 /\ resp.data[1].summary = "snippet"
    /\ Len(emails_cache) = 1 /\ emails_cache[1].id = 1

-----------------------------------------------------------------------------
(* C30 *)

\* C30: when the generative model fails during CATEGORIZE (the call raises,
\* or its text is no JSON object), the answer is of type categories and is
\* one group, "All Emails", that holds every email of the cache.
C30_Original ==
    [][\A r \in Slots :
         (Resumed(r, "await_categorize") /\ resp'.cause \in AiCauses) =>
            /\ resp'.type = "categories"
            /\ Len(resp'.data) = 1
            /\ resp'.data[1].category = "All Emails"
            /\ resp'.data[1].count = Len(req[r].cache)
            /\ resp'.data[1].emails = req[r].cache]_vars

\* The call of the model raised AIError and CATEGORIZE answered with no
\* group at all.
C30_Witness ==
    /\ resp.intent = "CATEGORIZE" /\ resp.type = "categories"
    /\ resp.cause = "AIError"
    /\ resp.data = <<>>
    /\ emails_cache # <<>>

\* The part of C30 that holds: JSON that is no object gives the one group,
\* and no failure of the model makes CATEGORIZE answer with an error.
C30_CatchAllForNonObject ==
    [][\A r \in Slots :
         (Resumed(r, "await_categorize") /\ resp'.cause \in AiCauses) =>
            /\ resp'.type = "categories"
            /\ resp'.cause = "not_object" =>
                  /\ Len(resp'.data) = 1
                  /\ resp'.data[1].category = "All Emails"
                  /\ resp'.data[1].emails = req[r].cache]_vars

-----------------------------------------------------------------------------
(* C31 *)

\* The generative model failed during DIGEST: the call raised, or its text
\* was not JSON.
DigestFailed(r) ==
    Resumed(r, "await_digest") /\ resp'.cause \in {"AIError", "not_json"}

-----------------------------------------------------------------------------
(* C32 *)

\* The handler of the request in slot r started in this step, with this intent.
Starts(r, intent) ==
    Ran(r, intent) /\ req[r].pc \in {"idle", "await_parse"}

\* The handler of the request in slot r called the fetch in this step, for
\* the first count messages of the inbox.
FetchCalled(r, count) ==
    /\ req'[r].pc = "await_fetch"
    /\ req'[r].count = count
    /\ req'[r].fetched = Found(count, NoQuery)

\* C32: CATEGORIZE calls the fetch, for 20 messages, when the cache holds
\* fewer than 10 emails as the handler starts and only then; DIGEST calls it,
\* for 5, when the cache is empty and only then; a request that finds what it
\* wants in the cache goes on to the generative model with that cache, and no
\* step of these requests but the return of their fetch writes the cache.
C32_AutoFetch ==
    [][\A r \in Slots :
         /\ Starts(r, "CATEGORIZE") =>
               /\ UNCHANGED emails_cache
               /\ IF Len(emails_cache) < 10
                  THEN FetchCalled(r, 20)
                  ELSE /\ req'[r].pc = "await_categorize"
                       /\ req'[r].cache = emails_cache
         /\ Starts(r, "DIGEST") =>
               /\ UNCHANGED emails_cache
               /\ IF Len(emails_cache) = 0
                  THEN FetchCalled(r, 5)
                  ELSE /\ req'[r].pc = "await_digest"
                       /\ req'[r].cache = emails_cache
         /\ (Resumed(r, "await_categorize") \/ Resumed(r, "await_digest")) =>
               UNCHANGED emails_cache]_vars

\* A CATEGORIZE request went to the model without a fetch of its own (it holds
\* no count), on the cache of 20 emails that an earlier request fetched from
\* an inbox of more; a DIGEST request did the same.
C32_Witness ==
    /\ Len(inbox) > 20 /\ Len(emails_cache) = 20
    /\ req[1].pc = "await_categorize" /\ req[1].count = NoCount
    /\ req[1].cache = emails_cache
    /\ req[2].pc = "await_digest" /\ req[2].count = NoCount

-----------------------------------------------------------------------------
(* C33 *)

\* What the message says to send: the content after the addressing part, or
\* None when it has none.
Explicit == extract.content

\* C33, as the spec has it: for "reply to <reference>" extract_reply_content
\* returns None, and for "reply to <reference>: X" it returns X; the
\* addressing part is never in what it returns.
C33_Original ==
    (extract.returned /\ extract.message # <<>>) => extract.result = Explicit

\* "reply  to #1", with a second space after "reply", has no content and
\* extract_reply_content returned "to #1".
C33_Witness ==
    /\ extract.returned
    /\ extract.message = <<"r", "e", "p", "l", "y", " ", " ", "t", "o", " ", "#", "1">>
    /\ extract.content = NoneText
    /\ extract.result = <<"t", "o", " ", "#", "1">>

\* The part of C33 that holds: with one space after "reply", a reference
\* that does not hold the word "reply", and content of more than two
\* characters that does not hold the word "say", the content is returned as
\* it stands, and None when there is none.
C33_AsTested ==
    (/\ extract.returned /\ extract.message # <<>>
     /\ ~Contains(extract.command, <<" ", " ">>)
     /\ ~Contains(extract.reference, <<"r", "e", "p", "l", "y">>)
     /\ extract.content # NoneText =>
           Len(extract.content) > 2 /\ ~Contains(extract.content, <<"s", "a", "y", " ">>))
        => extract.result = Explicit

-----------------------------------------------------------------------------
(* C34 *)

\* The number n, as a reference, finds the email of index n in the cache, or
\* none.
ByIndex(n) ==
    LET email == ResolveEmailReference(n, emails_cache)
    IN  email # NoEmail => email.index = n

\* C34, as the spec has it: whatever was fetched and deleted, a number finds
\* the cached email that carries it as its index, or none.
C34_Original == \A n \in 1..(MaxMail + 1) : ByIndex(n)

\* The email of index 1 was deleted, the cache is left with the email of
\* index 2, and a DELETE request then stored that email as its target: of a
\* cache of one email only the reference "1" finds anything.
C34_Witness ==
    /\ Len(deleted) = 1 /\ Len(stored) = 2
    /\ stored[1].data.email.index = 1
    /\ Len(emails_cache) = 1 /\ emails_cache[1].index = 2
    /\ pending_action = "delete"
    /\ pending_data.email = emails_cache[1]

\* The part of C34 that holds: until a delete is confirmed the cache is as it
\* was fetched, and a number finds the email of that index.
C34_UntilDelete == deleted = <<>> => C34_Original

-----------------------------------------------------------------------------
(* C35 *)

\* The invocations of the send and delete collaborators made for the stored
\* payload of this serial.
Invocations(src) ==
    Cardinality({i \in DOMAIN sent : sent[i].src = src})
        + Cardinality({i \in DOMAIN deleted : deleted[i].src = src})

\* C35: whatever the interleaving of the requests of the session, the send
\* or delete collaborator is invoked at most once for a stored payload; a
\* CONFIRM that finds the payload taken by another CONFIRM or by a CANCEL
\* answers that nothing is pending, a CANCEL that finds it taken answers that
\* there is nothing to cancel, and neither invokes a collaborator.
C35_ExecutedAtMostOnce ==
    [][/\ \A src \in 1..Len(stored') : Invocations(src)' <= 1
       /\ \A r \in Slots :
             /\ (Starts(r, "CONFIRM") /\ pending_action = None) =>
                   /\ resp'.msg = "nothing_to_confirm"
                   /\ NoCollaboratorCall
             /\ (Starts(r, "CANCEL") /\ pending_action = None) =>
                   /\ resp'.msg = "nothing_to_cancel"
                   /\ NoCollaboratorCall]_vars

\* Two CONFIRM requests for one payload: the first is still sending, the
\* second has been told that nothing is pending.
C35_Witness ==
    /\ Len(stored) = 1 /\ Len(sent) = 1 /\ deleted = <<>>
    /\ \E r \in Slots : req[r].pc = "await_send" /\ req[r].src = 1
    /\ resp.intent = "CONFIRM" /\ resp.msg = "nothing_to_confirm"

-----------------------------------------------------------------------------
(* C36 *)

\* The send or the delete that the CONFIRM request in slot r was waiting for
\* failed in this step.
ActionFailed(r) ==
    /\ Resumed(r, "await_send") \/ Resumed(r, "await_trash")
    /\ resp'.cause # None

\* C36: when the send or the delete of a CONFIRM fails, the answer is of type
\* error; the payload is no longer pending, it was cleared before the call,
\* and the session is idle unless another request has stored a newer payload
\* since; the cache, the trash and the pending fields are as they were. A
\* later CONFIRM answers that nothing is pending and invokes nothing, or
\* executes a payload that was never executed before: the failed action is
\* not tried again.
C36_FailedActionIsGone ==
    [][\A r \in Slots :
         /\ ActionFailed(r) =>
               /\ resp'.type = "error" /\ resp'.intent = "CONFIRM"
               /\ UNCHANGED <<emails_cache, trashed, pending_action, pending_data,
                              sent, deleted>>
               /\ pending_src # req[r].src
               /\ Len(stored) = req[r].src => pending_action = None
         /\ Starts(r, "CONFIRM") =>
               IF pending_action = None
               THEN resp'.msg = "nothing_to_confirm" /\ NoCollaboratorCall
               ELSE Invocations(pending_src) = 0]_vars

\* A delete was confirmed and failed (it was called, nothing is in the trash
\* and no request is waiting for it): the cache holds both emails still,
\* nothing is pending, and the CONFIRM that followed was told so.
C36_Witness ==
    /\ Len(deleted) = 1 /\ sent = <<>> /\ trashed = {}
    /\ \A r \in Slots : req[r].pc = "idle"
    /\ Len(emails_cache) = 2
    /\ pending_action = None /\ pending_data = NoneData
    /\ resp.intent = "CONFIRM" /\ resp.msg = "nothing_to_confirm"

-----------------------------------------------------------------------------
(* C37 *)

\* A REPLY or DELETE request stored its payload in this step.
StoredNow == Len(stored') = Len(stored) + 1

\* The one collaborator call of this step executes the pending payload.
ExecutesPending ==
    IF pending_action = "send"
    THEN /\ sent' = Append(sent, [call |-> CallOf(pending_data),
                                  src |-> pending_src, intent |-> "CONFIRM"])
         /\ deleted' = deleted
    ELSE /\ deleted' = Append(deleted, [email_id |-> pending_data.email_id,
                                        src |-> pending_src, intent |-> "CONFIRM"])
         /\ sent' = sent

\* C37: the session holds one pending action, the payload stored last. A
\* REPLY or DELETE that stores while another payload is pending puts its kind
\* and its payload in the place of both fields, and the payload it replaces
\* has not been executed; a CONFIRM executes the pending payload, the one
\* stored last, and nothing else; no step executes a payload stored before
\* the last: a payload that was replaced is never executed.
C37_OnePendingAction ==
    [][/\ StoredNow =>
             /\ pending_action' = stored'[Len(stored')].kind
             /\ pending_data' = stored'[Len(stored')].data
             /\ pending_src' = Len(stored')
             /\ pending_src # 0 => Invocations(pending_src) = 0
       /\ pending_src' \in {0, Len(stored')}
       /\ \A r \in Slots :
             (Starts(r, "CONFIRM") /\ pending_action # None) => ExecutesPending
       /\ \A src \in 1..Len(stored) :
             Invocations(src)' # Invocations(src) => src = Len(stored)]_vars

\* Two payloads for different emails were stored, the second while the first
\* was pending (no request took the first: it was not executed, and it is
\* not pending); the second has been executed.
C37_Witness ==
    /\ Len(stored) = 2
    /\ stored[1].data.email_id # stored[2].data.email_id
    /\ Invocations(1) = 0 /\ Invocations(2) = 1
    /\ pending_action = None

-----------------------------------------------------------------------------
(* C38 *)

\* The emails of the cache.
Cached == {emails_cache[i] : i \in DOMAIN emails_cache}

\* The email a pending payload is for is no longer what the cache shows
\* under its index.
Displaced(email) ==
    email.index > Len(emails_cache) \/ emails_cache[email.index].id # email.id

\* C38: the payload holds the email as the REPLY or DELETE request found it
\* in the cache of that moment (a REPLY that has its body generated stores
\* the email it found before the generation); a fetch or a delete that
\* writes the cache leaves the pending fields as they are; and CONFIRM calls
\* the collaborator for the id, the recipient and the body of the payload as
\* it was stored, whatever the cache holds by then.
C38_PayloadIsSnapshot ==
    [][\A r \in Slots :
         /\ (Starts(r, "REPLY") \/ Starts(r, "DELETE")) =>
               /\ StoredNow =>
                     /\ pending_data'.email \in Cached
                     /\ pending_data'.email_id = pending_data'.email.id
               /\ req'[r].pc = "await_generate_reply" => req'[r].email \in Cached
         /\ (Resumed(r, "await_generate_reply") /\ StoredNow) =>
               /\ pending_data'.email = req[r].email
               /\ pending_data'.email_id = req[r].email.id
         /\ (Resumed(r, "await_fetch") \/ Resumed(r, "await_trash")) =>
               UNCHANGED <<pending_action, pending_data>>
         /\ (Starts(r, "CONFIRM") /\ pending_action # None) =>
               /\ pending_data = stored[pending_src].data
               /\ pending_action = "send" =>
                     sent' = Append(sent,
                        [call |-> [to |-> pending_data.email.sender_email,
                                   body |-> pending_data.reply_body,
                                   reply_to_id |-> pending_data.email_id],
                         src |-> pending_src, intent |-> "CONFIRM"])
               /\ pending_action = "delete" =>
                     deleted' = Append(deleted,
                        [email_id |-> pending_data.email_id,
                         src |-> pending_src, intent |-> "CONFIRM"])]_vars

\* A CONFIRM has just called the send for the email the REPLY request found,
\* with its recipient, while the cache, fetched anew since, shows another
\* email under that index.
C38_Witness ==
    /\ resp = NoResp
    /\ req[1].pc = "await_send" /\ req[2].pc = "idle"
    /\ Len(sent) = 1 /\ Len(stored) = 1
    /\ sent[1].call.reply_to_id = stored[1].data.email.id
    /\ sent[1].call.to = stored[1].data.email.sender_email
    /\ Len(emails_cache) >= stored[1].data.email.index
    /\ Displaced(stored[1].data.email)

-----------------------------------------------------------------------------
(* C39 *)

\* The ids of the emails of the cache.
CachedIds == {emails_cache[i].id : i \in DOMAIN emails_cache}

\* C39, as the spec has it: an email whose confirmed delete has succeeded is
\* not in the cache. (A fetch that starts after the delete does not list it:
\* Gmail lists the inbox, and the email is in the trash.)
C39_Original == CachedIds \cap trashed = {}

\* The fetch of a READ_EMAILS request was in flight when the delete of the
\* newest email succeeded; it has returned since, and the cache shows the
\* deleted email as #1.
C39_Witness ==
    /\ trashed = {inbox[1]}
    /\ Len(emails_cache) = 2 /\ emails_cache[1].id = inbox[1]
    /\ \E r \in Slots : req[r].pc = "await_summarize"

-----------------------------------------------------------------------------
(* C40: a request to the Gmail API ends within retries + 1 attempts *)

\* The outcomes an attempt is retried after: a 429, a 5xx, a timeout and a
\* connection error.
Transient(outcome) ==
    \/ outcome.raised \in {"TimeoutException", "ConnectError"}
    \/ outcome.raised = "None" /\ (outcome.status = 429 \/ outcome.status >= 500)

Success(outcome) ==
    outcome.raised = "None" /\ 200 <= outcome.status /\ outcome.status < 300

Attempts == Len(request.history)

\* The attempt the call ended with.
Final == request.history[Attempts]

\* No more than retries + 1 attempts are made, and every attempt that was
\* followed by a backoff or by another attempt had a transient outcome.
RetriesOnlyTransient ==
    /\ Attempts <= request.retries + 1
    /\ \A i \in 1..Attempts :
          (i < Attempts \/ request.pc = "sleep") => Transient(request.history[i])

\* How the call ends on each outcome of its final attempt, the 2xx apart.
EndsByStatus ==
    request.pc = "done" =>
        /\ Attempts >= 1
        /\ Final.raised = "None" /\ Final.status = 404 =>
              request.result = Returned("None")
        /\ Final.raised = "None" /\ Final.status = 401 =>
              request.result.kind = "AuthError"
        /\ Final.raised = "None" /\ Final.status = 403 =>
              request.result.kind = "GmailError"
        /\ Transient(Final) =>
              /\ Attempts = request.retries + 1
              /\ request.result.kind = "GmailError"

SuccessReturnsParsedBody ==
    request.pc = "done" /\ Success(Final) =>
        request.result =
            IF Final.status = 204 \/ Final.content = "empty" THEN Returned("{}")
            ELSE IF Final.content = "json" THEN Returned("body")
            ELSE Unexpected

C40_SuccessRaised ==
    /\ request.pc = "done"
    /\ Success(Final)
    /\ request.result = Unexpected

=============================================================================
